---- MODULE Spec2Model ----
(***************************************************************************)
(* Intron / intergenic quantification of CAMPAREE                          *)
(* (camparee/intron_quant.py, IntronQuantificationStep).                   *)
(*                                                                         *)
(* Spec         one call of execute() on a fresh instance: the loop over   *)
(*              alignment records, normalization, double-count correction, *)
(*              transcript aggregation and the three reports.              *)
(* SpecResolve  the interval-overlap search of one block against one axis. *)
(* SpecTables   execute() from the end of the record loop on, over raw     *)
(*              count tables drawn from bounded sets.                      *)
(* SpecRerun    execute() called more than once on one instance, every     *)
(*              call on the same alignment file.                           *)
(*                                                                         *)
(* Two utilities of camparee/camparee_utils.py (CampareeUtils):            *)
(* SpecFasta    create_oneline_seq_fasta, line by line over a FASTA file.  *)
(* SpecGtf      convert_gtf_to_annot_file_format, line by line over a GTF  *)
(*              file.                                                      *)
(***************************************************************************)
EXTENDS Integers, Sequences, FiniteSets

VARIABLES
    forward_read_is_sense,              \* parameters["forward_read_is_sense"]
    pc,                                 \* position inside execute()
    nread,                              \* records consumed from the stream
    occurrences,                        \* query name -> qualifying records consumed
    branch,                             \* path the last loop iteration took
    read,                               \* loop variable of the fetch loop
    mate,                               \* cached mate of the pair being processed
    strand,                             \* strand of the fragment being processed
    antisense_strand,                   \* the opposite strand
    mintrons_touched,
    antisense_mintrons_touched,
    intergenics_touched,
    unpaired_reads,                     \* query name -> first-seen record
    skipped_chromosomes,                \* list of chromosomes already reported
    stdout,                             \* chromosomes named by the skip messages
    intron_read_counts,                 \* Counter: intron -> raw sense count
    intron_antisense_read_counts,       \* Counter: intron -> raw antisense count
    intergenic_read_counts,             \* defaultdict(Counter): chrom -> index -> count
    intron_normalized_counts,           \* Counter: intron -> FPK
    intron_normalized_antisense_counts, \* Counter: intron -> FPK
    cpos,                               \* next position of the correction walk
    transcript_intron_counts,           \* Counter: transcript id -> rate
    transcript_intron_antisense_counts, \* Counter: transcript id -> rate
    output_directory,                   \* per call of execute(): file name -> rows
    calls,                              \* calls of execute() the caller makes
    run,                                \* calls of execute() begun so far
    alignments,                         \* records of the alignment file
    unreachable_counts,                 \* entries of the normalized Counters under
                                        \* the Intron objects of earlier indexes
    rAxis, rBlock, rTouched, rPc,       \* SpecResolve: axis, block, result
    input_fasta_file,                   \* SpecFasta: lines of the input file
    fasta_pc,                           \* position inside create_oneline_seq_fasta
    fasta_pos,                          \* input lines consumed
    building_sequence,
    output_fasta_file,                  \* characters written so far
    fasta_chromosomes,                  \* the set `chromosomes` of the function
    gtf_file,                           \* SpecGtf: lines of the input file
    gtf_pc,                             \* position inside convert_gtf_to_annot_file_format
    gtf_pos,                            \* input lines consumed
    gtf_chrom, gtf_strand, txid, geneid,
    ex_starts, ex_stops, ex_count,
    output_annot_file,                  \* lines written so far
    gtf_chromosomes,                    \* the set `chromosomes` of the function
    gtf_error                           \* exception that ended the function

execVars == <<forward_read_is_sense, pc, nread, occurrences, branch, read, mate,
              strand, antisense_strand,
              mintrons_touched, antisense_mintrons_touched, intergenics_touched,
              unpaired_reads, skipped_chromosomes, stdout,
              intron_read_counts, intron_antisense_read_counts,
              intergenic_read_counts, intron_normalized_counts,
              intron_normalized_antisense_counts, cpos,
              transcript_intron_counts, transcript_intron_antisense_counts,
              output_directory, calls, run, alignments, unreachable_counts>>
reportVars == <<transcript_intron_counts, transcript_intron_antisense_counts,
                output_directory>>
callVars == <<calls, run, alignments, unreachable_counts>>
resolveVars == <<rAxis, rBlock, rTouched, rPc>>
fastaVars == <<input_fasta_file, fasta_pc, fasta_pos, building_sequence,
               output_fasta_file, fasta_chromosomes>>
gtfVars == <<gtf_file, gtf_pc, gtf_pos, gtf_chrom, gtf_strand, txid, geneid,
             ex_starts, ex_stops, ex_count, output_annot_file, gtf_chromosomes,
             gtf_error>>
utilVars == <<fastaVars, gtfVars>>
vars == <<execVars, resolveVars, utilVars>>

(***************************************************************************)
(* Bounds                                                                  *)
(***************************************************************************)
\* records of the alignment stream that a run consumes at most
MaxReads == 4
\* largest coordinate of an axis or block in SpecResolve
MaxCoord == 6
\* largest number of bins of an axis in SpecResolve
MaxBins == 3
\* largest raw count of an intron of the chain in SpecTables
MaxRaw == 2
\* number of calls of execute() on one instance in SpecRerun
MaxCalls == 2
\* largest number of records of the alignment file in SpecRerun
MaxFile == 2
\* largest number of characters of a line of the FASTA file in SpecFasta
MaxLineLength == 2
\* largest number of lines of the FASTA file in SpecFasta
MaxFastaLines == 3
\* largest number of lines of the GTF file in SpecGtf
MaxGtfLines == 4

(***************************************************************************)
(* Python containers                                                       *)
(***************************************************************************)
None == "None"
EmptyTable == <<>>

\* Counter.__getitem__ / dict.get(key, 0): a missing key reads as 0 and is
\* not inserted.
Get(table, key) == IF key \in DOMAIN table THEN table[key] ELSE 0

\* table[key] = value
Put(table, key, value) ==
    [k \in DOMAIN table \cup {key} |-> IF k = key THEN value ELSE table[k]]

\* del that leaves the key in place
Del_Keeps(table, key) == table

\* del table[key]
Del(table, key) == [k \in DOMAIN table \ {key} |-> table[k]]

Min(a, b) == IF a <= b THEN a ELSE b

\* list membership: `x in list`
InList(x, list) == \E i \in 1..Len(list) : list[i] = x

(***************************************************************************)
(* The annotation index (AnnotationInfo): chromosome "1" with genes on     *)
(* both strands and intergenic regions, contig "2" that is annotated but   *)
(* has no mintron and no intergenic extent, and chromosome "3" with a      *)
(* chain of overlapping introns and a transcript of five introns.          *)
(* Coordinates are 1-based, inclusive.                                     *)
(*                                                                         *)
(*  "1" strand +   T1: introns A [2,3], B [5,8], C [10,11]                 *)
(*                 T2: intron  D [7,9]                                     *)
(*      strand -   T3: intron  E [3,6]                                     *)
(*      mintrons of ("1","+"):  m0 [2,3]  m1 [5,6]  m2 [7,8]  m3 [9,9]     *)
(*                              m4 [10,11]                                 *)
(*      mintrons of ("1","-"):  n0 [3,6]                                   *)
(*      intergenic regions:     [1,1]  [12,12]                             *)
(*                                                                         *)
(*  "3" strand +   T4: introns F [2,5], J [12,13], K [16,17], M [20,21],   *)
(*                              L [24,25]                                  *)
(*                 T5: intron  G [4,7]                                     *)
(*                 T6: intron  H [6,9]                                     *)
(*      mintrons of ("3","+"):  p0 [2,3]  p1 [4,5]  p2 [6,7]  p3 [8,9]     *)
(*                              p4 [12,13]  p5 [16,17]  p6 [20,21]         *)
(*                              p7 [24,25]                                 *)
(*      intergenic regions:     [1,1]                                      *)
(***************************************************************************)
Introns == {"A", "B", "C", "D", "E", "F", "G", "H", "J", "K", "L", "M"}

Mintrons == {"m0", "m1", "m2", "m3", "m4", "n0",
             "p0", "p1", "p2", "p3", "p4", "p5", "p6", "p7"}

\* info.intergenics: chrom -> list of intergenic regions
intergenics ==
    [c \in {"1", "2", "3"} |->
        CASE c = "1" -> << [start |-> 1, end |-> 1], [start |-> 12, end |-> 12] >>
          [] c = "2" -> << >>
          [] c = "3" -> << [start |-> 1, end |-> 1] >>]

\* info.intergenic_extents_by_chrom: chrom -> (starts, ends)
intergenic_extents_by_chrom ==
    [c \in {"1", "3"} |->
        IF c = "1" THEN << <<1, 12>>, <<1, 12>> >> ELSE << <<1>>, <<1>> >>]

\* info.mintron_extents_by_chrom: (chrom, strand) -> (starts, ends)
mintron_extents_by_chrom ==
    [k \in {<<"1", "+">>, <<"1", "-">>, <<"3", "+">>} |->
        CASE k = <<"1", "+">> -> << <<2, 5, 7, 9, 10>>, <<3, 6, 8, 9, 11>> >>
          [] k = <<"1", "-">> -> << <<3>>, <<6>> >>
          [] k = <<"3", "+">> -> << <<2, 4, 6, 8, 12, 16, 20, 24>>,
                                    <<3, 5, 7, 9, 13, 17, 21, 25>> >>]

\* info.mintrons_by_chrom: (chrom, strand) -> list of mintrons
mintrons_by_chrom ==
    [k \in {<<"1", "+">>, <<"1", "-">>, <<"3", "+">>} |->
        CASE k = <<"1", "+">> -> <<"m0", "m1", "m2", "m3", "m4">>
          [] k = <<"1", "-">> -> <<"n0">>
          [] k = <<"3", "+">> -> <<"p0", "p1", "p2", "p3", "p4", "p5", "p6", "p7">>]

\* mintron.primary_introns
primary_introns ==
    [m \in Mintrons |->
        CASE m = "m0" -> {"A"}
          [] m = "m1" -> {"B"}
          [] m = "m2" -> {"B"}
          [] m = "m3" -> {"D"}
          [] m = "m4" -> {"C"}
          [] m = "n0" -> {"E"}
          [] m = "p0" -> {"F"}
          [] m = "p1" -> {"G"}
          [] m = "p2" -> {"H"}
          [] m = "p3" -> {"H"}
          [] m = "p4" -> {"J"}
          [] m = "p5" -> {"K"}
          [] m = "p6" -> {"M"}
          [] m = "p7" -> {"L"}]

\* mintron.primary_antisense_introns
primary_antisense_introns ==
    [m \in Mintrons |->
        IF m = "m2" THEN {"D"} ELSE primary_introns[m]]

\* intron.mintrons
mintrons ==
    [i \in Introns |->
        CASE i = "A" -> <<"m0">>
          [] i = "B" -> <<"m1", "m2">>
          [] i = "C" -> <<"m4">>
          [] i = "D" -> <<"m2", "m3">>
          [] i = "E" -> <<"n0">>
          [] i = "F" -> <<"p0", "p1">>
          [] i = "G" -> <<"p1", "p2">>
          [] i = "H" -> <<"p2", "p3">>
          [] i = "J" -> <<"p4">>
          [] i = "K" -> <<"p5">>
          [] i = "M" -> <<"p6">>
          [] i = "L" -> <<"p7">>]

\* intron.antisense_mintrons
antisense_mintrons == mintrons

\* intron.effective_length
effective_length ==
    [i \in Introns |-> IF i \in {"C", "D", "H", "M"} THEN 8 ELSE 4]

\* intron.antisense_effective_length
antisense_effective_length ==
    [i \in Introns |-> IF i \in {"A", "B", "E", "M"} THEN 8 ELSE 4]

\* info.transcripts: transcript id -> transcript.introns, and the other
\* fields of a transcript that the reports print
transcripts ==
    [t \in {"T1", "T2", "T3", "T4", "T5", "T6"} |->
        CASE t = "T1" -> <<"A", "B", "C">>
          [] t = "T2" -> <<"D">>
          [] t = "T3" -> <<"E">>
          [] t = "T4" -> <<"F", "J", "K", "M", "L">>
          [] t = "T5" -> <<"G">>
          [] t = "T6" -> <<"H">>]

\* transcript.gene.gene_id
gene_id ==
    [t \in DOMAIN transcripts |->
        CASE t \in {"T1", "T2"} -> "g2"
          [] t = "T3" -> "g1"
          [] OTHER -> "g3"]

\* transcript.chrom
transcript_chrom ==
    [t \in DOMAIN transcripts |-> IF t \in {"T1", "T2", "T3"} THEN "1" ELSE "3"]

\* transcript.strand
transcript_strand ==
    [t \in DOMAIN transcripts |-> IF t = "T3" THEN "-" ELSE "+"]

\* info.transcripts_by_chrom, in the order .items() yields it
transcripts_by_chrom ==
    << <<"1", <<"T1", "T2", "T3">> >>, <<"2", << >> >>,
       <<"3", <<"T4", "T5", "T6">> >> >>

\* the strings the reports sort, in the order Python compares them
Alphabetical == <<"1", "2", "3", "T1", "T2", "T3", "T4", "T5", "T6",
                  "g1", "g2", "g3">>

(***************************************************************************)
(* Alignment records                                                       *)
(***************************************************************************)
Names == {"q1", "q2"}
Chromosomes == {"1", "2", "U", "V"}

\* read.get_blocks() of the records aligned to chromosome "1": 0-based,
\* half-open (start, end) pairs
BlockLists ==
    { << <<1, 3>> >>,                      \* exactly m0, head of n0
      << <<8, 9>> >>,                      \* m3 only
      << <<0, 1>>, <<4, 5>>, <<5, 8>> >> } \* intergenic region 0, before every
                                           \* mintron; m1 twice and m2, n0 twice

\* a block over the tail of m2 and the whole of m3
Straddling == << <<7, 9>> >>

Record(name, unmapped, proper, nh, chrom, rev, r1, blocks) ==
    [query_name |-> name, is_unmapped |-> unmapped, is_proper_pair |-> proper,
     NH |-> nh, reference_name |-> chrom, is_reverse |-> rev,
     is_read1 |-> r1, is_read2 |-> ~r1, blocks |-> blocks]

\* the records a stream may hold.  Under the name "q1": uniquely mapped
\* proper mates on the annotated chromosome "1", on the annotated contig "2"
\* and on the chromosomes "U" and "V" that the index does not know, and three
\* records that each fail one of the three conditions of line 59.  Under the
\* name "q2", which serves to interleave two pairs: mates on "1" and on "U".
Records ==
    { Record("q1", FALSE, TRUE, 1, "1", rev, r1, b) :
        rev \in BOOLEAN, r1 \in BOOLEAN, b \in BlockLists }
    \cup
    { Record("q1", FALSE, TRUE, 1, c, rev, TRUE, << <<0, 2>> >>) :
        rev \in BOOLEAN, c \in {"2", "U"} }
    \cup
    { Record("q1", FALSE, TRUE, 1, "V", FALSE, TRUE, << <<0, 2>> >>) }
    \cup
    { Record("q1", TRUE, TRUE, 1, "1", FALSE, TRUE, << <<1, 3>> >>),
      Record("q1", FALSE, FALSE, 1, "1", FALSE, TRUE, << <<1, 3>> >>),
      Record("q1", FALSE, TRUE, 2, "1", FALSE, TRUE, << <<1, 3>> >>) }
    \cup
    { Record("q2", FALSE, TRUE, 1, "1", rev, r1, Straddling) :
        rev \in BOOLEAN, r1 \in BOOLEAN }
    \cup
    { Record("q2", FALSE, TRUE, 1, "U", FALSE, TRUE, << <<0, 2>> >>) }

\* the value of `read` and `mate` while they hold no record
NoRecord ==
    [query_name |-> None, is_unmapped |-> TRUE, is_proper_pair |-> FALSE,
     NH |-> 0, reference_name |-> None, is_reverse |-> FALSE,
     is_read1 |-> FALSE, is_read2 |-> FALSE, blocks |-> << >>]

(***************************************************************************)
(* Interval-overlap search                                                 *)
(***************************************************************************)
RECURSIVE Bisect(_, _, _, _)
\* binary search of numpy.searchsorted(a, v, side="right") over the 0-based
\* index window [lo, hi): the insertion point after every element <= v
Bisect(a, v, lo, hi) ==
    IF lo >= hi THEN lo
    ELSE LET mid == lo + (hi - lo) \div 2
         IN  IF a[mid + 1] <= v THEN Bisect(a, v, mid + 1, hi)
             ELSE Bisect(a, v, lo, mid)

searchsorted(a, v) == Bisect(a, v, 0, Len(a))

\* range(a, b)
Range(a, b) == a..(b - 1)

\* BinsTouched with the bin that starts before the block kept only when it
\* ends strictly after the block start
BinsTouched_StrictEnd(starts, ends, start, end) ==
    LET last_before == searchsorted(starts, start) - 1
        first_after == searchsorted(starts, end)
    IN  IF last_before = -1 THEN Range(0, first_after)
        ELSE IF ends[last_before + 1] > start
             THEN Range(last_before, first_after)
             ELSE Range(last_before + 1, first_after)

\* bins of the axis (starts, ends) that the 1-based inclusive block
\* [start, end] touches; bin indices are 0-based as in the source
BinsTouched(starts, ends, start, end) ==
    LET last_before == searchsorted(starts, start) - 1
        first_after == searchsorted(starts, end)
    IN  IF last_before = -1 THEN Range(0, first_after)
        ELSE IF ends[last_before + 1] >= start
             THEN Range(last_before, first_after)
             ELSE Range(last_before + 1, first_after)

\* table.get(key, [None, None])
Extents(table, key) ==
    IF key \in DOMAIN table
    THEN [present |-> TRUE, starts |-> table[key][1], ends |-> table[key][2]]
    ELSE [present |-> FALSE, starts |-> << >>, ends |-> << >>]

\* one pysam block (0-based, half-open) against one axis
BlockTouches(axis, block) ==
    LET start == block[1] + 1
        end == block[2]
    IN  IF axis.present THEN BinsTouched(axis.starts, axis.ends, start, end)
        ELSE {}

\* TouchedByBlocks that looks at the first block of the chain only
TouchedByBlocks_HeadOnly(axis, blocks) ==
    IF blocks = << >> THEN {} ELSE BlockTouches(axis, Head(blocks))

RECURSIVE TouchedByBlocks(_, _)
\* union of the bins touched over a chain of blocks
TouchedByBlocks(axis, blocks) ==
    IF blocks = << >> THEN {}
    ELSE BlockTouches(axis, Head(blocks)) \cup TouchedByBlocks(axis, Tail(blocks))

(***************************************************************************)
(* Fragment strand                                                         *)
(***************************************************************************)
\* read1_reverse_aligned without the read-2 half of the disjunction
read1_reverse_aligned_Read1Only(r) == r.is_reverse /\ r.is_read1

read1_reverse_aligned(r) ==
    (r.is_reverse /\ r.is_read1) \/ (~r.is_reverse /\ r.is_read2)

\* FragmentStrand from the reverse flag of the record alone, whichever mate
\* of the pair the record is
FragmentStrand_RecordFlag(r, fwd_is_sense) ==
    IF fwd_is_sense
    THEN (IF r.is_reverse THEN "-" ELSE "+")
    ELSE (IF r.is_reverse THEN "+" ELSE "-")

FragmentStrand(r, fwd_is_sense) ==
    IF fwd_is_sense
    THEN (IF read1_reverse_aligned(r) THEN "-" ELSE "+")
    ELSE (IF read1_reverse_aligned(r) THEN "+" ELSE "-")

AntisenseStrand(s) == IF s = "+" THEN "-" ELSE "+"

(***************************************************************************)
(* Raw count accumulation                                                  *)
(***************************************************************************)
RECURSIVE AddEach(_, _)
\* for intron in introns: table[intron] += 1
AddEach(table, introns) ==
    IF introns = {} THEN table
    ELSE LET i == CHOOSE x \in introns : TRUE
         IN  AddEach(Put(table, i, Get(table, i) + 1), introns \ {i})

RECURSIVE Accumulate(_, _, _, _)
\* for index in touched: for intron in primary[mintron_list[index]]: += 1
Accumulate(table, touched, mintron_list, primary) ==
    IF touched = {} THEN table
    ELSE LET x == CHOOSE y \in touched : TRUE
         IN  Accumulate(AddEach(table, primary[mintron_list[x + 1]]),
                        touched \ {x}, mintron_list, primary)

RECURSIVE AccumulateIntergenic(_, _, _)
\* for intergenic in touched: self.intergenic_read_counts[chrom][intergenic] += 1
AccumulateIntergenic(table, chrom, touched) ==
    IF touched = {} THEN table
    ELSE LET x == CHOOSE y \in touched : TRUE
             counter == IF chrom \in DOMAIN table THEN table[chrom] ELSE EmptyTable
         IN  AccumulateIntergenic(
                 Put(table, chrom, Put(counter, x, Get(counter, x) + 1)),
                 chrom, touched \ {x})

(***************************************************************************)
(* Normalization and double-count correction                               *)
(***************************************************************************)
\* count / length * 1000; every length of the index divides 1000 * count
\* and is a power of two, so the quotient is exact
FPK(count, length) == (count * 1000) \div length

\* lines 169-171: every intron with a raw sense count gets its FPK
NormalizeSense(normalized, raw) ==
    [i \in DOMAIN normalized \cup DOMAIN raw |->
        IF i \in DOMAIN raw THEN FPK(raw[i], effective_length[i])
        ELSE normalized[i]]

\* lines 169, 174-176: the antisense FPK of the introns met in the loop over
\* the raw sense counts whose raw antisense count is positive
NormalizeAntisense(normalized, raw, raw_antisense) ==
    LET stored == {i \in DOMAIN raw : Get(raw_antisense, i) > 0}
    IN  [i \in DOMAIN normalized \cup stored |->
            IF i \in stored
            THEN FPK(Get(raw_antisense, i), antisense_effective_length[i])
            ELSE normalized[i]]

RECURSIVE Flatten(_)
Flatten(lists) ==
    IF lists = << >> THEN << >> ELSE Head(lists) \o Flatten(Tail(lists))

\* the introns in the order the three nested loops of the correction visit
\* them: chromosomes, transcripts of the chromosome, introns of the transcript
VisitOrder ==
    Flatten([c \in 1..Len(transcripts_by_chrom) |->
        Flatten([t \in 1..Len(transcripts_by_chrom[c][2]) |->
            transcripts[transcripts_by_chrom[c][2][t]]])])

RECURSIVE SubtractEach_FloorAtZero(_, _, _)
\* SubtractEach with max in place of min
SubtractEach_FloorAtZero(table, others, count) ==
    IF others = {} THEN table
    ELSE LET o == CHOOSE x \in others : TRUE
             lowered == Get(table, o) - count
         IN  SubtractEach_FloorAtZero(
                 Put(table, o, IF lowered >= 0 THEN lowered ELSE 0),
                 others \ {o}, count)

RECURSIVE SubtractEach(_, _, _)
\* for other_intron in others: table[other_intron] = min(table[other_intron] - count, 0)
SubtractEach(table, others, count) ==
    IF others = {} THEN table
    ELSE LET o == CHOOSE x \in others : TRUE
         IN  SubtractEach(Put(table, o, Min(Get(table, o) - count, 0)),
                          others \ {o}, count)

RECURSIVE CorrectOver_EveryMintron(_, _, _, _, _)
\* CorrectOver without the test `intron not in primary[mintron]`
CorrectOver_EveryMintron(table, mintron_list, intron, count, primary) ==
    IF mintron_list = << >> THEN table
    ELSE CorrectOver_EveryMintron(
             SubtractEach(table, primary[Head(mintron_list)], count),
             Tail(mintron_list), intron, count, primary)

RECURSIVE CorrectOver(_, _, _, _, _)
\* for mintron in mintron_list: if intron not in primary[mintron]: subtract
CorrectOver(table, mintron_list, intron, count, primary) ==
    IF mintron_list = << >> THEN table
    ELSE LET m == Head(mintron_list)
             next == IF intron \notin primary[m]
                     THEN SubtractEach(table, primary[m], count)
                     ELSE table
         IN  CorrectOver(next, Tail(mintron_list), intron, count, primary)

\* CorrectSense that subtracts the count the intron had right after the
\* normalization
CorrectSense_CountAfterNormalization(normalized, intron) ==
    LET count == IF intron \in DOMAIN intron_read_counts
                 THEN FPK(intron_read_counts[intron], effective_length[intron])
                 ELSE 0
    IN  IF count = 0 THEN normalized
        ELSE CorrectOver(normalized, mintrons[intron], intron, count,
                         primary_introns)

\* the sense table after the visit of one intron
CorrectSense(normalized, intron) ==
    LET count == Get(normalized, intron)
    IN  IF count = 0 THEN normalized
        ELSE CorrectOver(normalized, mintrons[intron], intron, count,
                         primary_introns)

\* the antisense table after the visit of one intron
CorrectAntisense(normalized, normalized_antisense, intron) ==
    LET count == Get(normalized, intron)
        antisense_count == Get(CorrectSense(normalized, intron), intron)
    IN  IF count = 0 THEN normalized_antisense
        ELSE CorrectOver(normalized_antisense, antisense_mintrons[intron],
                         intron, antisense_count, primary_antisense_introns)

(***************************************************************************)
(* Transcript aggregation                                                  *)
(***************************************************************************)
\* transcript.introns[1:] in place of transcript.introns[1:-1]
NonFlank_KeepsLast(introns) == SubSeq(introns, 2, Len(introns))

\* line 211: transcript.introns[1:-1]
NonFlank(introns) == SubSeq(introns, 2, Len(introns) - 1)

RECURSIVE WeightedSum(_, _)
\* lines 215-219: the sum of table[intron] * intron.effective_length
WeightedSum(table, introns) ==
    IF introns = << >> THEN 0
    ELSE Get(table, Head(introns)) * effective_length[Head(introns)]
            + WeightedSum(table, Tail(introns))

RECURSIVE TotalLength(_)
\* lines 215, 220: the sum of intron.effective_length
TotalLength(introns) ==
    IF introns = << >> THEN 0
    ELSE effective_length[Head(introns)] + TotalLength(Tail(introns))

\* lines 211-227 for one transcript and one normalized table.  The lengths of
\* the index are powers of two and the raw counts of the introns between the
\* flanks are such that the quotient is a whole number.
TranscriptRate(table, introns) ==
    LET non_flank_introns == NonFlank(introns)
        total_length == TotalLength(non_flank_introns)
    IN  IF total_length = 0 THEN 0
        ELSE WeightedSum(table, non_flank_introns) \div total_length

\* lines 206-227: every transcript of the index gets its rate
Aggregated(rates, table) ==
    [t \in DOMAIN rates \cup DOMAIN transcripts |->
        IF t \in DOMAIN transcripts THEN TranscriptRate(table, transcripts[t])
        ELSE rates[t]]

(***************************************************************************)
(* Reports                                                                 *)
(***************************************************************************)
\* the names of the output files (CAMPAREE_CONSTANTS)
INTRON_OUTPUT_FILENAME == "INTRON_OUTPUT_FILENAME"
INTRON_OUTPUT_ANTISENSE_FILENAME == "INTRON_OUTPUT_ANTISENSE_FILENAME"
INTERGENIC_OUTPUT_FILENAME == "INTERGENIC_OUTPUT_FILENAME"

\* position of a string in the order of Python's string comparison
Rank(s) == CHOOSE k \in 1..Len(Alphabetical) : Alphabetical[k] = s

\* tuple comparison of two (gene_id, transcript_id) pairs
KeyBefore(a, b) ==
    \/ Rank(a[1]) < Rank(b[1])
    \/ a[1] = b[1] /\ Rank(a[2]) < Rank(b[2])

RECURSIVE Sorted(_)
\* sorted(...) of a set of (gene_id, transcript_id) pairs
Sorted(keys) ==
    IF keys = {} THEN << >>
    ELSE LET first == CHOOSE k \in keys : \A o \in keys \ {k} : KeyBefore(k, o)
         IN  <<first>> \o Sorted(keys \ {first})

RECURSIVE SortedStrings(_)
\* sorted(...) of a set of strings
SortedStrings(strings) ==
    IF strings = {} THEN << >>
    ELSE LET first == CHOOSE k \in strings :
                          \A o \in strings \ {k} : Rank(k) < Rank(o)
         IN  <<first>> \o SortedStrings(strings \ {first})

\* lines 235-248, 255-268: the rows of an intron report below its header; a
\* row holds the numbers that str() prints
IntronReport(rates, table) ==
    LET transcript_ids == Sorted({ <<gene_id[t], t>> : t \in DOMAIN transcripts })
    IN  [k \in 1..Len(transcript_ids) |->
            LET t == transcript_ids[k][2]
            IN  [gene_id |-> transcript_ids[k][1],
                 transcript_id |-> t,
                 chr |-> transcript_chrom[t],
                 strand |-> transcript_strand[t],
                 transcript_intron_reads_FPK |-> Get(rates, t),
                 intron_reads_FPK |->
                     [j \in 1..Len(transcripts[t]) |-> Get(table, transcripts[t][j])]]]

\* defaultdict.__getitem__: the counter of the chromosome, empty when the key
\* is missing
CounterOf(table, chrom) ==
    IF chrom \in DOMAIN table THEN table[chrom] ELSE EmptyTable

\* the intergenic report with rows for the bins that have an entry only
IntergenicReport_CountedOnly(table) ==
    LET chroms_sorted == SortedStrings(DOMAIN intergenics)
    IN  Flatten([k \in 1..Len(chroms_sorted) |->
            LET chrom == chroms_sorted[k]
                all == [i \in 1..Len(intergenics[chrom]) |->
                           [chromosome |-> chrom,
                            intergenic_region_number |-> i - 1,
                            start |-> intergenics[chrom][i].start,
                            end |-> intergenics[chrom][i].end,
                            reads_FPK |-> Get(CounterOf(table, chrom), i - 1)]]
            IN  SelectSeq(all, LAMBDA row : row.reads_FPK # 0)])

\* lines 277-288: the rows of the intergenic report below its header
IntergenicReport(table) ==
    LET chroms_sorted == SortedStrings(DOMAIN intergenics)
    IN  Flatten([k \in 1..Len(chroms_sorted) |->
            LET chrom == chroms_sorted[k]
            IN  [i \in 1..Len(intergenics[chrom]) |->
                    [chromosome |-> chrom,
                     intergenic_region_number |-> i - 1,
                     start |-> intergenics[chrom][i].start,
                     end |-> intergenics[chrom][i].end,
                     reads_FPK |-> Get(CounterOf(table, chrom), i - 1)]]])

\* line 281: self.intergenic_read_counts[chrom] on a defaultdict inserts an
\* empty counter under a missing key; the line runs for every chromosome of
\* the index that has an intergenic region
ReadByWriter(table) ==
    [c \in DOMAIN table \cup { x \in DOMAIN intergenics : Len(intergenics[x]) > 0 } |->
        CounterOf(table, c)]

(***************************************************************************)
(* execute()                                                               *)
(***************************************************************************)
\* __init__ (lines 16-29)
Constructed ==
    /\ forward_read_is_sense \in BOOLEAN
    /\ pc = "constructed"
    /\ nread = 0
    /\ occurrences = [n \in Names |-> 0]
    /\ branch = None
    /\ read = NoRecord
    /\ mate = NoRecord
    /\ strand = None
    /\ antisense_strand = None
    /\ mintrons_touched = {}
    /\ antisense_mintrons_touched = {}
    /\ intergenics_touched = {}
    /\ unpaired_reads = EmptyTable
    /\ skipped_chromosomes = << >>
    /\ stdout = << >>
    /\ intron_read_counts = EmptyTable
    /\ intron_antisense_read_counts = EmptyTable
    /\ intergenic_read_counts = EmptyTable
    /\ intron_normalized_counts = EmptyTable
    /\ intron_normalized_antisense_counts = EmptyTable
    /\ cpos = 1
    /\ transcript_intron_counts = EmptyTable
    /\ transcript_intron_antisense_counts = EmptyTable
    /\ output_directory = << >>
    /\ run = 0
    /\ unreachable_counts = << >>

\* create_oneline_seq_fasta has not been called
FastaIdle ==
    /\ input_fasta_file = << >>
    /\ fasta_pc = "idle"
    /\ fasta_pos = 0
    /\ building_sequence = FALSE
    /\ output_fasta_file = << >>
    /\ fasta_chromosomes = {}

\* convert_gtf_to_annot_file_format has not been called
GtfIdle ==
    /\ gtf_file = << >>
    /\ gtf_pc = "idle"
    /\ gtf_pos = 0
    /\ gtf_chrom = ""
    /\ gtf_strand = ""
    /\ txid = ""
    /\ geneid = ""
    /\ ex_starts = << >>
    /\ ex_stops = << >>
    /\ ex_count = 1
    /\ output_annot_file = << >>
    /\ gtf_chromosomes = {}
    /\ gtf_error = None

UtilsIdle == FastaIdle /\ GtfIdle

\* an alignment file whose records are not fixed in advance: the stream may
\* yield any record next, or end
AnyStream == << NoRecord >>

\* the caller calls execute() once, on whatever alignment file
SingleCall ==
    /\ calls = 1
    /\ alignments = AnyStream

Init ==
    /\ Constructed
    /\ SingleCall
    /\ UtilsIdle
    /\ rAxis = [present |-> FALSE, starts |-> << >>, ends |-> << >>]
    /\ rBlock = <<0, 1>>
    /\ rTouched = {}
    /\ rPc = "idle"

\* both normalized Counters of the instance are empty
NothingNormalized ==
    /\ intron_normalized_counts = EmptyTable
    /\ intron_normalized_antisense_counts = EmptyTable

\* a table of the instance that execute() starts from empty
KeptByInstance_Reset(table) == EmptyTable

\* lines 23-28, 35-38: a table that __init__ creates and execute() never
\* reassigns is, when a call begins, what the previous call left
KeptByInstance(table) == table

\* lines 35-56: the tables and the cache local to one call are created and
\* the annotation index is built anew (line 50).  The normalized Counters are
\* keyed by the Intron objects of the index; whether the objects of the new
\* index are, as keys, equal to those of the previous call's index is up to
\* AnnotationInfo.  When they are not, the entries of the earlier call stay in
\* the Counters, out of reach of every lookup of this call.
BeginExecute ==
    /\ pc \in {"constructed", "done"}
    /\ run < calls
    /\ run' = run + 1
    /\ output_directory' = Append(output_directory, EmptyTable)
    /\ pc' = "reading"
    /\ \E same_keys \in IF NothingNormalized THEN {TRUE} ELSE BOOLEAN :
          IF same_keys
          THEN UNCHANGED <<intron_normalized_counts,
                           intron_normalized_antisense_counts, unreachable_counts>>
          ELSE /\ unreachable_counts' =
                     Append(unreachable_counts,
                            [sense |-> intron_normalized_counts,
                             antisense |-> intron_normalized_antisense_counts])
               /\ intron_normalized_counts' = EmptyTable
               /\ intron_normalized_antisense_counts' = EmptyTable
    /\ intergenic_read_counts' = KeptByInstance(intergenic_read_counts)
    /\ transcript_intron_counts' = KeptByInstance(transcript_intron_counts)
    /\ transcript_intron_antisense_counts' =
          KeptByInstance(transcript_intron_antisense_counts)
    /\ intron_read_counts' = EmptyTable
    /\ intron_antisense_read_counts' = EmptyTable
    /\ unpaired_reads' = EmptyTable
    /\ skipped_chromosomes' = << >>
    /\ UNCHANGED <<forward_read_is_sense, nread, occurrences, branch, read, mate,
                   strand, antisense_strand,
                   mintrons_touched, antisense_mintrons_touched,
                   intergenics_touched, stdout, cpos, calls, alignments,
                   resolveVars, utilVars>>

\* line 59 without the NH test
Qualifies_AnyNH(r) == ~(r.is_unmapped \/ ~r.is_proper_pair)

\* line 59
Qualifies(r) == ~(r.is_unmapped \/ ~r.is_proper_pair \/ ~(r.NH = 1))

\* the stream yields one more record
Fetch(r) ==
    /\ pc = "reading"
    /\ nread < MaxReads
    /\ alignments = AnyStream
          \/ (nread < Len(alignments) /\ alignments[nread + 1] = r)
    /\ nread' = nread + 1
    /\ read' = r
    /\ occurrences' = IF Qualifies(r)
                      THEN [occurrences EXCEPT ![r.query_name] = @ + 1]
                      ELSE occurrences

\* the locals of the pair processing are dead in an iteration that leaves the
\* loop body early
NoFragment ==
    /\ strand' = None
    /\ antisense_strand' = None
    /\ mintrons_touched' = {}
    /\ antisense_mintrons_touched' = {}
    /\ intergenics_touched' = {}

\* lines 59-60: the record is not a uniquely mapped proper mate
Discard(r) ==
    /\ Fetch(r)
    /\ ~Qualifies(r)
    /\ branch' = "discarded"
    /\ mate' = NoRecord
    /\ NoFragment
    /\ UNCHANGED <<forward_read_is_sense, pc, unpaired_reads,
                   skipped_chromosomes, stdout, intron_read_counts,
                   intron_antisense_read_counts, intergenic_read_counts,
                   intron_normalized_counts,
                   intron_normalized_antisense_counts, cpos, reportVars, callVars,
                   resolveVars, utilVars>>

\* lines 62-67: no mate is cached under the query name
CacheRead(r) ==
    /\ Fetch(r)
    /\ Qualifies(r)
    /\ r.query_name \notin DOMAIN unpaired_reads
    /\ unpaired_reads' = Put(unpaired_reads, r.query_name, r)
    /\ branch' = "cached"
    /\ mate' = NoRecord
    /\ NoFragment
    /\ UNCHANGED <<forward_read_is_sense, pc, skipped_chromosomes, stdout,
                   intron_read_counts, intron_antisense_read_counts,
                   intergenic_read_counts, intron_normalized_counts,
                   intron_normalized_antisense_counts, cpos, reportVars, callVars,
                   resolveVars, utilVars>>

\* lines 63, 71: the mate is taken out of the cache
TakeMate(r) ==
    /\ Fetch(r)
    /\ Qualifies(r)
    /\ r.query_name \in DOMAIN unpaired_reads
    /\ mate' = unpaired_reads[r.query_name]
    /\ unpaired_reads' = Del(unpaired_reads, r.query_name)

\* line 75: `chrom in self.info.intergenics`
Annotated(chrom) == chrom \in DOMAIN intergenics

\* lines 76-78 without the membership test
ReportSkipped_Always(list, chrom) == Append(list, chrom)

\* lines 76-78: the list after a pair of the chromosome is skipped; the
\* message is printed when the chromosome is appended
ReportSkipped(list, chrom) ==
    IF ~InList(chrom, list) THEN Append(list, chrom) ELSE list

\* line 83 with the assertion gone
OppositeOrientation_Unchecked(r, m) == TRUE

\* line 83: the asserted condition
OppositeOrientation(r, m) == r.is_reverse # m.is_reverse

\* lines 73-79: the chromosome of the record has no annotation
SkipPair(r) ==
    /\ TakeMate(r)
    /\ ~Annotated(r.reference_name)
    /\ skipped_chromosomes' = ReportSkipped(skipped_chromosomes, r.reference_name)
    /\ stdout' = stdout \o SubSeq(skipped_chromosomes', Len(skipped_chromosomes) + 1,
                                  Len(skipped_chromosomes'))
    /\ branch' = "skipped"
    /\ NoFragment
    /\ UNCHANGED <<forward_read_is_sense, pc, intron_read_counts,
                   intron_antisense_read_counts, intergenic_read_counts,
                   intron_normalized_counts,
                   intron_normalized_antisense_counts, cpos, reportVars, callVars,
                   resolveVars, utilVars>>

\* line 83: the assertion fails and the exception ends execute()
AbortPair(r) ==
    /\ TakeMate(r)
    /\ Annotated(r.reference_name)
    /\ ~OppositeOrientation(r, unpaired_reads[r.query_name])
    /\ pc' = "aborted"
    /\ branch' = "aborted"
    /\ NoFragment
    /\ UNCHANGED <<forward_read_is_sense, skipped_chromosomes, stdout,
                   intron_read_counts, intron_antisense_read_counts,
                   intergenic_read_counts, intron_normalized_counts,
                   intron_normalized_antisense_counts, cpos, reportVars, callVars,
                   resolveVars, utilVars>>

\* lines 85-165: the fragment is resolved and counted
CountPair(r) ==
    /\ TakeMate(r)
    /\ Annotated(r.reference_name)
    /\ OppositeOrientation(r, unpaired_reads[r.query_name])
    /\ LET chrom == r.reference_name
           s == FragmentStrand(r, forward_read_is_sense)
           a == AntisenseStrand(s)
           blocks == r.blocks \o unpaired_reads[r.query_name].blocks
           mt == TouchedByBlocks(Extents(mintron_extents_by_chrom, <<chrom, s>>), blocks)
           at == TouchedByBlocks(Extents(mintron_extents_by_chrom, <<chrom, a>>), blocks)
           it == TouchedByBlocks(Extents(intergenic_extents_by_chrom, chrom), blocks)
       IN  /\ strand' = s
           /\ antisense_strand' = a
           /\ mintrons_touched' = mt
           /\ antisense_mintrons_touched' = at
           /\ intergenics_touched' = it
           /\ intron_read_counts' =
                 IF mt = {} THEN intron_read_counts
                 ELSE Accumulate(intron_read_counts, mt,
                                 mintrons_by_chrom[<<chrom, s>>], primary_introns)
           /\ intron_antisense_read_counts' =
                 IF at = {} THEN intron_antisense_read_counts
                 ELSE Accumulate(intron_antisense_read_counts, at,
                                 mintrons_by_chrom[<<chrom, a>>],
                                 primary_antisense_introns)
           /\ intergenic_read_counts' =
                 AccumulateIntergenic(intergenic_read_counts, chrom, it)
    /\ branch' = "counted"
    /\ UNCHANGED <<forward_read_is_sense, pc, skipped_chromosomes, stdout,
                   intron_normalized_counts,
                   intron_normalized_antisense_counts, cpos, reportVars, callVars,
                   resolveVars, utilVars>>

\* lines 57, 45: the stream is exhausted and the `with` block closes the
\* alignment file, whose position is gone with it.  Nothing below the loop
\* reads the loop's locals or the cache, whatever they hold: they are dropped
\* here.
EndOfStream ==
    /\ pc = "reading"
    /\ alignments = AnyStream \/ nread = Len(alignments)
    /\ pc' = "normalize"
    /\ nread' = 0
    /\ occurrences' = [n \in Names |-> 0]
    /\ branch' = "eof"
    /\ read' = NoRecord
    /\ mate' = NoRecord
    /\ NoFragment
    /\ unpaired_reads' = EmptyTable
    /\ UNCHANGED <<forward_read_is_sense, skipped_chromosomes, stdout,
                   intron_read_counts, intron_antisense_read_counts,
                   intergenic_read_counts, intron_normalized_counts,
                   intron_normalized_antisense_counts, cpos, reportVars, callVars,
                   resolveVars, utilVars>>

\* lines 169-176
Normalize ==
    /\ pc = "normalize"
    /\ pc' = "correct"
    /\ cpos' = 1
    /\ intron_normalized_counts' =
          NormalizeSense(intron_normalized_counts, intron_read_counts)
    /\ intron_normalized_antisense_counts' =
          NormalizeAntisense(intron_normalized_antisense_counts,
                             intron_read_counts, intron_antisense_read_counts)
    /\ UNCHANGED <<forward_read_is_sense, nread, occurrences, branch, read, mate,
                   strand, antisense_strand,
                   mintrons_touched, antisense_mintrons_touched,
                   intergenics_touched, unpaired_reads, skipped_chromosomes,
                   stdout, intron_read_counts, intron_antisense_read_counts,
                   intergenic_read_counts, reportVars, callVars,
                   resolveVars, utilVars>>

\* lines 184-203: the correction visits the next intron of the walk
CorrectIntron ==
    /\ pc = "correct"
    /\ cpos <= Len(VisitOrder)
    /\ LET intron == VisitOrder[cpos]
       IN  /\ intron_normalized_counts' =
                 CorrectSense(intron_normalized_counts, intron)
           /\ intron_normalized_antisense_counts' =
                 CorrectAntisense(intron_normalized_counts,
                                  intron_normalized_antisense_counts, intron)
    /\ cpos' = cpos + 1
    /\ UNCHANGED <<forward_read_is_sense, pc, nread, occurrences, branch, read,
                   mate, strand, antisense_strand,
                   mintrons_touched, antisense_mintrons_touched,
                   intergenics_touched, unpaired_reads, skipped_chromosomes,
                   stdout, intron_read_counts, intron_antisense_read_counts,
                   intergenic_read_counts, reportVars, callVars,
                   resolveVars, utilVars>>

\* lines 182-184: the walk is over
EndCorrection ==
    /\ pc = "correct"
    /\ cpos > Len(VisitOrder)
    /\ pc' = "corrected"
    /\ UNCHANGED <<forward_read_is_sense, nread, occurrences, branch, read, mate,
                   strand, antisense_strand,
                   mintrons_touched, antisense_mintrons_touched,
                   intergenics_touched, unpaired_reads, skipped_chromosomes,
                   stdout, intron_read_counts, intron_antisense_read_counts,
                   intergenic_read_counts, intron_normalized_counts,
                   intron_normalized_antisense_counts, cpos, reportVars, callVars,
                   resolveVars, utilVars>>

\* lines 206-227
Aggregate ==
    /\ pc = "corrected"
    /\ pc' = "aggregated"
    /\ transcript_intron_counts' =
          Aggregated(transcript_intron_counts, intron_normalized_counts)
    /\ transcript_intron_antisense_counts' =
          Aggregated(transcript_intron_antisense_counts,
                     intron_normalized_antisense_counts)
    /\ UNCHANGED <<forward_read_is_sense, nread, occurrences, branch, read, mate,
                   strand, antisense_strand,
                   mintrons_touched, antisense_mintrons_touched,
                   intergenics_touched, unpaired_reads, skipped_chromosomes,
                   stdout, intron_read_counts, intron_antisense_read_counts,
                   intergenic_read_counts, intron_normalized_counts,
                   intron_normalized_antisense_counts, cpos, output_directory,
                   callVars, resolveVars, utilVars>>

\* the variables that no report writer changes
WriterFrame ==
    UNCHANGED <<forward_read_is_sense, nread, occurrences, branch, read, mate,
                strand, antisense_strand,
                mintrons_touched, antisense_mintrons_touched,
                intergenics_touched, unpaired_reads, skipped_chromosomes,
                stdout, intron_read_counts, intron_antisense_read_counts,
                intron_normalized_counts, intron_normalized_antisense_counts,
                cpos, transcript_intron_counts,
                transcript_intron_antisense_counts, callVars, resolveVars, utilVars>>

\* open(path, "w") ... write: the file of the call's output directory holds
\* the rows
Written(directory, call, filename, rows) ==
    [directory EXCEPT ![call] = Put(@, filename, rows)]

\* the sense report written right after the correction, the aggregation
\* skipped
WriteIntronReport_BeforeAggregation ==
    /\ pc = "corrected"
    /\ pc' = "sense_written"
    /\ output_directory' =
          Written(output_directory, run, INTRON_OUTPUT_FILENAME,
                  IntronReport(transcript_intron_counts, intron_normalized_counts))
    /\ UNCHANGED intergenic_read_counts
    /\ WriterFrame

\* lines 231-248
WriteIntronReport ==
    /\ pc = "aggregated"
    /\ pc' = "sense_written"
    /\ output_directory' =
          Written(output_directory, run, INTRON_OUTPUT_FILENAME,
                  IntronReport(transcript_intron_counts, intron_normalized_counts))
    /\ UNCHANGED intergenic_read_counts
    /\ WriterFrame

\* lines 251-268
WriteAntisenseReport ==
    /\ pc = "sense_written"
    /\ pc' = "antisense_written"
    /\ output_directory' =
          Written(output_directory, run, INTRON_OUTPUT_ANTISENSE_FILENAME,
                  IntronReport(transcript_intron_antisense_counts,
                               intron_normalized_antisense_counts))
    /\ UNCHANGED intergenic_read_counts
    /\ WriterFrame

\* lines 273-288; execute() returns
WriteIntergenicReport ==
    /\ pc = "antisense_written"
    /\ pc' = "done"
    /\ output_directory' =
          Written(output_directory, run, INTERGENIC_OUTPUT_FILENAME,
                  IntergenicReport(intergenic_read_counts))
    /\ intergenic_read_counts' = ReadByWriter(intergenic_read_counts)
    /\ WriterFrame

Next ==
    \/ BeginExecute
    \/ \E r \in Records : Discard(r)
    \/ \E r \in Records : CacheRead(r)
    \/ \E r \in Records : SkipPair(r)
    \/ \E r \in Records : AbortPair(r)
    \/ \E r \in Records : CountPair(r)
    \/ EndOfStream
    \/ Normalize
    \/ CorrectIntron
    \/ EndCorrection
    \/ Aggregate
    \/ WriteIntronReport
    \/ WriteAntisenseReport
    \/ WriteIntergenicReport

Spec == Init /\ [][Next]_vars

(***************************************************************************)
(* SpecResolve: one block against one axis                                 *)
(***************************************************************************)
RECURSIVE BinsFrom(_, _)
\* the lists of at most n bins [start, end] with lo <= start <= end <=
\* MaxCoord, sorted by start and mutually non-overlapping
BinsFrom(lo, n) ==
    IF n = 0 THEN { << >> }
    ELSE { << >> } \cup
         UNION { UNION { { << <<s, e>> >> \o rest : rest \in BinsFrom(e + 1, n - 1) }
                         : e \in s..MaxCoord }
                 : s \in lo..MaxCoord }

\* the axes: absent for the chromosome and strand, or the start and end
\* arrays of a list of bins
Axes ==
    { [present |-> FALSE, starts |-> << >>, ends |-> << >>] }
    \cup
    { [present |-> TRUE,
       starts |-> [i \in 1..Len(bins) |-> bins[i][1]],
       ends |-> [i \in 1..Len(bins) |-> bins[i][2]]] : bins \in BinsFrom(1, MaxBins) }

\* the blocks pysam reports: 0-based, half-open, not empty
Blocks == { b \in (0..MaxCoord) \X (0..MaxCoord) : b[1] < b[2] }

InitResolve ==
    /\ Constructed
    /\ SingleCall
    /\ UtilsIdle
    /\ rAxis \in Axes
    /\ rBlock \in Blocks
    /\ rTouched = {}
    /\ rPc = "ready"

\* lines 107-127 for the block and the axis
Resolve ==
    /\ rPc = "ready"
    /\ rTouched' = BlockTouches(rAxis, rBlock)
    /\ rPc' = "done"
    /\ UNCHANGED <<execVars, rAxis, rBlock, utilVars>>

NextResolve == Resolve

SpecResolve == InitResolve /\ [][NextResolve]_vars

(***************************************************************************)
(* SpecRerun: execute() called again on the same instance, same file       *)
(***************************************************************************)
\* blocks over intergenic region 0 of chromosome "1" and the mintrons m1, m2
OverIntergenic == << <<0, 1>>, <<4, 5>>, <<5, 8>> >>

\* the records of the alignment files of SpecRerun: the mates on chromosome
\* "1" with the blocks OverIntergenic, the records on the unannotated
\* chromosome "U" and the multi-mapped record
RerunRecords ==
    { r \in Records :
        /\ r.query_name = "q1"
        /\ \/ Qualifies(r) /\ r.reference_name = "1" /\ r.blocks = OverIntergenic
           \/ r.reference_name = "U"
           \/ r.NH = 2 }

\* the alignment files: lists of at most MaxFile records
Files == UNION { [1..n -> RerunRecords] : n \in 0..MaxFile }

\* the caller calls execute() MaxCalls times on the instance, each time with
\* the same alignment file path (line 52 opens the file anew)
InitRerun ==
    /\ Constructed
    /\ UtilsIdle
    /\ calls = MaxCalls
    /\ alignments \in Files
    /\ rAxis = [present |-> FALSE, starts |-> << >>, ends |-> << >>]
    /\ rBlock = <<0, 1>>
    /\ rTouched = {}
    /\ rPc = "idle"

SpecRerun == InitRerun /\ [][Next]_vars

(***************************************************************************)
(* SpecTables: from the end of the record loop on                          *)
(***************************************************************************)
\* raw counts of the introns between the flanks of T4
EvenRaw == {0, 2}

\* a Counter holding the nonzero counts of a function intron -> count
CounterFrom(counts) ==
    [i \in { x \in DOMAIN counts : counts[x] # 0 } |-> counts[i]]

\* raw sense tables: any counts up to MaxRaw for the chain F, G, H, none or
\* two fragments for each of J, K, M, none or one for the flank L
RawSenseTables ==
    { CounterFrom([i \in {"F", "G", "H", "J", "K", "M", "L"} |->
                      CASE i \in DOMAIN chain -> chain[i]
                        [] i \in DOMAIN mid -> mid[i]
                        [] OTHER -> last]) :
        chain \in [{"F", "G", "H"} -> 0..MaxRaw],
        mid \in [{"J", "K", "M"} -> EvenRaw],
        last \in {0, 1} }

\* raw antisense tables: none or one fragment for G, none or two for J
RawAntisenseTables ==
    { CounterFrom([i \in {"G", "J"} |-> IF i = "G" THEN g ELSE j]) :
        g \in {0, 1}, j \in EvenRaw }

\* the first call on a fresh instance has left the record loop (line 165)
\* with the raw tables of a stream of fragments of chromosome "3", each
\* inside one mintron
InitTables ==
    /\ forward_read_is_sense \in BOOLEAN
    /\ pc = "normalize"
    /\ nread = 0
    /\ occurrences = [n \in Names |-> 0]
    /\ branch = "eof"
    /\ read = NoRecord
    /\ mate = NoRecord
    /\ strand = None
    /\ antisense_strand = None
    /\ mintrons_touched = {}
    /\ antisense_mintrons_touched = {}
    /\ intergenics_touched = {}
    /\ unpaired_reads = EmptyTable
    /\ skipped_chromosomes = << >>
    /\ stdout = << >>
    /\ intron_read_counts \in RawSenseTables
    /\ intron_antisense_read_counts \in RawAntisenseTables
    /\ intergenic_read_counts = EmptyTable
    /\ intron_normalized_counts = EmptyTable
    /\ intron_normalized_antisense_counts = EmptyTable
    /\ cpos = 1
    /\ transcript_intron_counts = EmptyTable
    /\ transcript_intron_antisense_counts = EmptyTable
    /\ output_directory = << EmptyTable >>
    /\ run = 1
    /\ unreachable_counts = << >>
    /\ SingleCall
    /\ UtilsIdle
    /\ rAxis = [present |-> FALSE, starts |-> << >>, ends |-> << >>]
    /\ rBlock = <<0, 1>>
    /\ rTouched = {}
    /\ rPc = "idle"

NextTables ==
    \/ Normalize
    \/ CorrectIntron
    \/ EndCorrection
    \/ Aggregate
    \/ WriteIntronReport
    \/ WriteAntisenseReport
    \/ WriteIntergenicReport

SpecTables == InitTables /\ [][NextTables]_vars

(***************************************************************************)
(* SpecFasta: CampareeUtils.create_oneline_seq_fasta                       *)
(***************************************************************************)
\* the characters of the lines of a FASTA file: the header mark, a lower-case
\* and an upper-case letter, a blank; "\n" ends a line
FastaChars == {">", "a", "C", " "}
Newline == "\n"

\* a line is the list of its characters, without the "\n" that ends it
FastaLines == UNION { [1..n -> FastaChars] : n \in 0..MaxLineLength }

FastaFiles == UNION { [1..n -> FastaLines] : n \in 0..MaxFastaLines }

\* line.startswith(">")
IsHeader(line) == line # << >> /\ line[1] = ">"

\* \s of the regular expressions
IsWhitespace(ch) == ch \in {" ", Newline}

RECURSIVE NonSpacePrefix(_)
\* ([^\s]*) : the longest prefix without whitespace
NonSpacePrefix(chars) ==
    IF chars = << >> \/ IsWhitespace(Head(chars)) THEN << >>
    ELSE << Head(chars) >> \o NonSpacePrefix(Tail(chars))

\* line 61: re.match(r'>([^\s]*).*', line).group(1)
SequenceId(line) == NonSpacePrefix(Tail(line))

\* str.upper() of one character
UpperChar(ch) == IF ch = "a" THEN "A" ELSE ch

\* line 66: line.rstrip('\n').upper()
Upper(line) == [k \in 1..Len(line) |-> UpperChar(line[k])]

InitFasta ==
    /\ Constructed
    /\ SingleCall
    /\ rAxis = [present |-> FALSE, starts |-> << >>, ends |-> << >>]
    /\ rBlock = <<0, 1>>
    /\ rTouched = {}
    /\ rPc = "idle"
    /\ GtfIdle
    /\ input_fasta_file \in FastaFiles
    /\ fasta_pc = "lines"
    /\ fasta_pos = 0
    /\ building_sequence = FALSE
    /\ output_fasta_file = << >>
    /\ fasta_chromosomes = {}

\* lines 55-63: a header line
FastaHeaderLine ==
    /\ fasta_pc = "lines"
    /\ fasta_pos < Len(input_fasta_file)
    /\ IsHeader(input_fasta_file[fasta_pos + 1])
    /\ LET line == input_fasta_file[fasta_pos + 1]
           sequence_id == SequenceId(line)
       IN  /\ output_fasta_file' =
                 output_fasta_file
                     \o (IF building_sequence THEN << Newline >> ELSE << >>)
                     \o << ">" >> \o sequence_id \o << Newline >>
           /\ fasta_chromosomes' = fasta_chromosomes \cup {sequence_id}
    /\ building_sequence' = FALSE
    /\ fasta_pos' = fasta_pos + 1
    /\ UNCHANGED <<input_fasta_file, fasta_pc, gtfVars, execVars, resolveVars>>

\* lines 65-67: any other line
FastaSequenceLine ==
    /\ fasta_pc = "lines"
    /\ fasta_pos < Len(input_fasta_file)
    /\ ~IsHeader(input_fasta_file[fasta_pos + 1])
    /\ output_fasta_file' =
          output_fasta_file \o Upper(input_fasta_file[fasta_pos + 1])
    /\ building_sequence' = TRUE
    /\ fasta_pos' = fasta_pos + 1
    /\ UNCHANGED <<input_fasta_file, fasta_pc, fasta_chromosomes, gtfVars,
                   execVars, resolveVars>>

\* lines 69-72: the input is exhausted
FastaReturn ==
    /\ fasta_pc = "lines"
    /\ fasta_pos = Len(input_fasta_file)
    /\ output_fasta_file' = output_fasta_file \o << Newline >>
    /\ fasta_pc' = "returned"
    /\ UNCHANGED <<input_fasta_file, fasta_pos, building_sequence,
                   fasta_chromosomes, gtfVars, execVars, resolveVars>>

NextFasta ==
    \/ FastaHeaderLine
    \/ FastaSequenceLine
    \/ FastaReturn

SpecFasta == InitFasta /\ [][NextFasta]_vars

(***************************************************************************)
(* SpecGtf: CampareeUtils.convert_gtf_to_annot_file_format                 *)
(***************************************************************************)
\* A line of the GTF file is the list line.split("\t") of its fields.  A
\* header line holds no tab: one field.
GtfHeaderLine == << "#!genome-build" >>

\* (start, end) of the exons and other features of the file
Spans == { <<10, 11>>, <<9, 12>> }

\* a line of nine fields; the attributes column is given by what the patterns
\* of lines 204-207 find in it: a transcript_id and a gene_id, no gene_name,
\* no gene_biotype
GtfDataLine(feature, tx, span) ==
    << IF tx = "t1" THEN "1" ELSE "2", "src", feature, span[1], span[2], ".",
       "+", ".", [transcript_id |-> tx, gene_id |-> "g1"] >>

GtfLines ==
    { GtfHeaderLine }
    \cup { GtfDataLine(feature, tx, span) :
             feature \in {"exon", "CDS"}, tx \in {"t1", "t2"}, span \in Spans }

GtfFiles == UNION { [1..n -> GtfLines] : n \in 0..MaxGtfLines }

\* line 200: the annotation file's header, the format of line 13 without
\* braces behind '#'
AnnotHeader ==
    [chrom |-> "#chrom", strand |-> "strand", txStart |-> "txStart",
     txEnd |-> "txEnd", exonCount |-> "exonCount", exonStarts |-> "exonStarts",
     exonEnds |-> "exonEnds", transcriptID |-> "transcriptID",
     geneID |-> "geneID", geneSymbol |-> "geneSymbol", biotype |-> "biotype"]

RECURSIVE InsertByInt(_, _)
\* v put behind the elements of the sorted list that are <= v
InsertByInt(sorted, v) ==
    IF sorted = << >> THEN << v >>
    ELSE IF Head(sorted) <= v
         THEN << Head(sorted) >> \o InsertByInt(Tail(sorted), v)
         ELSE << v >> \o sorted

RECURSIVE SortByInt(_)
\* list.sort(key=int)
SortByInt(list) ==
    IF list = << >> THEN << >>
    ELSE InsertByInt(SortByInt(SubSeq(list, 1, Len(list) - 1)), list[Len(list)])

\* lines 270-284, 319-333: the line of the transcript collected so far
AnnotLine ==
    [chrom |-> gtf_chrom, strand |-> gtf_strand,
     txStart |-> SortByInt(ex_starts)[1],
     txEnd |-> SortByInt(ex_stops)[Len(ex_stops)],
     exonCount |-> ex_count,
     exonStarts |-> SortByInt(ex_starts),
     exonEnds |-> SortByInt(ex_stops),
     transcriptID |-> txid, geneID |-> geneid,
     geneSymbol |-> "None", biotype |-> "None"]

\* lines 195-222: the header is written and the variables are initialized
InitGtf ==
    /\ Constructed
    /\ SingleCall
    /\ rAxis = [present |-> FALSE, starts |-> << >>, ends |-> << >>]
    /\ rBlock = <<0, 1>>
    /\ rTouched = {}
    /\ rPc = "idle"
    /\ FastaIdle
    /\ gtf_file \in GtfFiles
    /\ gtf_pc = "first_exon"
    /\ gtf_pos = 0
    /\ gtf_chrom = ""
    /\ gtf_strand = ""
    /\ txid = ""
    /\ geneid = ""
    /\ ex_starts = << >>
    /\ ex_stops = << >>
    /\ ex_count = 1
    /\ output_annot_file = << AnnotHeader >>
    /\ gtf_chromosomes = {}
    /\ gtf_error = None

\* the line the loop in progress handles next
NextGtfLine == gtf_file[gtf_pos + 1]

\* lines 226-234: a line before the first exon line that is not an exon line
GtfSkipBeforeFirstExon ==
    /\ gtf_pc = "first_exon"
    /\ gtf_pos < Len(gtf_file)
    /\ \/ Len(NextGtfLine) <= 1
       \/ Len(NextGtfLine) >= 3 /\ NextGtfLine[3] # "exon"
    /\ gtf_pos' = gtf_pos + 1
    /\ UNCHANGED <<gtf_file, gtf_pc, gtf_chrom, gtf_strand, txid, geneid,
                   ex_starts, ex_stops, ex_count, output_annot_file,
                   gtf_chromosomes, gtf_error, fastaVars, execVars, resolveVars>>

\* lines 232-251: the first exon line primes the variables
GtfFirstExon ==
    /\ gtf_pc = "first_exon"
    /\ gtf_pos < Len(gtf_file)
    /\ Len(NextGtfLine) >= 3
    /\ NextGtfLine[3] = "exon"
    /\ gtf_pc' = "remainder"
    /\ gtf_pos' = gtf_pos + 1
    /\ gtf_chrom' = NextGtfLine[1]
    /\ gtf_strand' = NextGtfLine[7]
    /\ ex_starts' = Append(ex_starts, NextGtfLine[4])
    /\ ex_stops' = Append(ex_stops, NextGtfLine[5])
    /\ txid' = NextGtfLine[9].transcript_id
    /\ geneid' = NextGtfLine[9].gene_id
    /\ gtf_chromosomes' = gtf_chromosomes \cup { NextGtfLine[1] }
    /\ UNCHANGED <<gtf_file, ex_count, output_annot_file, gtf_error, fastaVars,
                   execVars, resolveVars>>

\* lines 236-238: the file ends before any exon line
GtfNoExon ==
    /\ gtf_pc = "first_exon"
    /\ gtf_pos = Len(gtf_file)
    /\ gtf_pc' = "failed"
    /\ gtf_error' = "CampareeUtilsException"
    /\ UNCHANGED <<gtf_file, gtf_pos, gtf_chrom, gtf_strand, txid, geneid,
                   ex_starts, ex_stops, ex_count, output_annot_file,
                   gtf_chromosomes, fastaVars, execVars, resolveVars>>

\* lines 232, 258: line_data[2] of a line with fewer than three fields (line
\* 232 evaluates it only when the line has more than one field)
GtfIndexError ==
    /\ gtf_pos < Len(gtf_file)
    /\ \/ gtf_pc = "first_exon" /\ Len(NextGtfLine) = 2
       \/ gtf_pc = "remainder" /\ Len(NextGtfLine) < 3
    /\ gtf_pc' = "failed"
    /\ gtf_pos' = gtf_pos + 1
    /\ gtf_error' = "IndexError"
    /\ UNCHANGED <<gtf_file, gtf_chrom, gtf_strand, txid, geneid,
                   ex_starts, ex_stops, ex_count, output_annot_file,
                   gtf_chromosomes, fastaVars, execVars, resolveVars>>

\* lines 254-258: a line after the first exon line with another feature type
GtfSkipLine ==
    /\ gtf_pc = "remainder"
    /\ gtf_pos < Len(gtf_file)
    /\ Len(NextGtfLine) >= 3
    /\ NextGtfLine[3] # "exon"
    /\ gtf_pos' = gtf_pos + 1
    /\ UNCHANGED <<gtf_file, gtf_pc, gtf_chrom, gtf_strand, txid, geneid,
                   ex_starts, ex_stops, ex_count, output_annot_file,
                   gtf_chromosomes, gtf_error, fastaVars, execVars, resolveVars>>

\* lines 258-303: an exon line of another transcript than the current one
GtfNewTranscript ==
    /\ gtf_pc = "remainder"
    /\ gtf_pos < Len(gtf_file)
    /\ Len(NextGtfLine) >= 3
    /\ NextGtfLine[3] = "exon"
    /\ NextGtfLine[9].transcript_id # txid
    /\ output_annot_file' = Append(output_annot_file, AnnotLine)
    /\ txid' = NextGtfLine[9].transcript_id
    /\ gtf_chrom' = NextGtfLine[1]
    /\ gtf_strand' = NextGtfLine[7]
    /\ ex_count' = 1
    /\ ex_starts' = << NextGtfLine[4] >>
    /\ ex_stops' = << NextGtfLine[5] >>
    /\ geneid' = NextGtfLine[9].gene_id
    /\ gtf_chromosomes' = gtf_chromosomes \cup { NextGtfLine[1] }
    /\ gtf_pos' = gtf_pos + 1
    /\ UNCHANGED <<gtf_file, gtf_pc, gtf_error, fastaVars, execVars, resolveVars>>

\* lines 258-262, 305-309: another exon line of the current transcript
GtfSameTranscript ==
    /\ gtf_pc = "remainder"
    /\ gtf_pos < Len(gtf_file)
    /\ Len(NextGtfLine) >= 3
    /\ NextGtfLine[3] = "exon"
    /\ NextGtfLine[9].transcript_id = txid
    /\ ex_starts' = Append(ex_starts, NextGtfLine[4])
    /\ ex_stops' = Append(ex_stops, NextGtfLine[5])
    /\ ex_count' = ex_count + 1
    /\ gtf_pos' = gtf_pos + 1
    /\ UNCHANGED <<gtf_file, gtf_pc, gtf_chrom, gtf_strand, txid, geneid,
                   output_annot_file, gtf_chromosomes, gtf_error, fastaVars,
                   execVars, resolveVars>>

\* lines 311-336: the file is exhausted; the last transcript is written
GtfReturn ==
    /\ gtf_pc = "remainder"
    /\ gtf_pos = Len(gtf_file)
    /\ output_annot_file' = Append(output_annot_file, AnnotLine)
    /\ ex_starts' = SortByInt(ex_starts)
    /\ ex_stops' = SortByInt(ex_stops)
    /\ gtf_pc' = "returned"
    /\ UNCHANGED <<gtf_file, gtf_pos, gtf_chrom, gtf_strand, txid, geneid,
                   ex_count, gtf_chromosomes, gtf_error, fastaVars, execVars,
                   resolveVars>>

NextGtf ==
    \/ GtfSkipBeforeFirstExon
    \/ GtfFirstExon
    \/ GtfNoExon
    \/ GtfIndexError
    \/ GtfSkipLine
    \/ GtfNewTranscript
    \/ GtfSameTranscript
    \/ GtfReturn

SpecGtf == InitGtf /\ [][NextGtf]_vars

(***************************************************************************)
(* C1                                                                      *)
(***************************************************************************)
\* the bins of an axis that overlap the 1-based inclusive block [s, e]
Overlapping(axis, s, e) ==
    { i \in 0..(Len(axis.starts) - 1) :
        axis.starts[i + 1] <= e /\ axis.ends[i + 1] >= s }

\* C1: for every sorted, non-overlapping axis and every block [s, e] the
\* resolver marks exactly the bins with start <= e and end >= s; an absent
\* axis gives the empty set.
C1_TouchedExactlyOverlapping ==
    rPc = "done" =>
        rTouched = IF rAxis.present
                   THEN Overlapping(rAxis, rBlock[1] + 1, rBlock[2])
                   ELSE {}

\* a block straddling the tail of one bin and the head of the next has been
\* resolved to both bins, with a third bin left out
C1_Witness ==
    /\ rPc = "done"
    /\ rAxis.present
    /\ Len(rAxis.starts) = 3
    /\ rTouched = {0, 1}
    /\ rAxis.starts[1] < rBlock[1] + 1
    /\ rAxis.ends[2] > rBlock[2]

(***************************************************************************)
(* C2                                                                      *)
(***************************************************************************)
\* the bins of an axis that at least one block of the chain overlaps
OverlappedByAny(axis, blocks) ==
    IF ~axis.present THEN {}
    ELSE { i \in 0..(Len(axis.starts) - 1) :
             \E k \in 1..Len(blocks) :
                 /\ axis.starts[i + 1] <= blocks[k][2]
                 /\ axis.ends[i + 1] >= blocks[k][1] + 1 }

IntergenicCount(table, chrom, index) ==
    IF chrom \in DOMAIN table THEN Get(table[chrom], index) ELSE 0

C2_Step ==
    (branch' = "counted" /\ nread' = nread + 1) =>
        LET chrom == read'.reference_name
            blocks == read'.blocks \o mate'.blocks
            st == OverlappedByAny(
                      Extents(mintron_extents_by_chrom, <<chrom, strand'>>), blocks)
            at == OverlappedByAny(
                      Extents(mintron_extents_by_chrom, <<chrom, antisense_strand'>>),
                      blocks)
            it == OverlappedByAny(Extents(intergenic_extents_by_chrom, chrom), blocks)
        IN  /\ mintrons_touched' = st
            /\ antisense_mintrons_touched' = at
            /\ intergenics_touched' = it
            /\ \A i \in Introns :
                  /\ Get(intron_read_counts', i) - Get(intron_read_counts, i) =
                        Cardinality({ x \in st :
                            i \in primary_introns[
                                      mintrons_by_chrom[<<chrom, strand'>>][x + 1]] })
                  /\ Get(intron_antisense_read_counts', i)
                        - Get(intron_antisense_read_counts, i) =
                        Cardinality({ x \in at :
                            i \in primary_antisense_introns[
                                      mintrons_by_chrom[<<chrom, antisense_strand'>>][x + 1]] })
            /\ \A c \in DOMAIN intergenic_read_counts' :
                  /\ c \in DOMAIN intergenics
                  /\ DOMAIN intergenic_read_counts'[c] \subseteq
                        0..(Len(intergenics[c]) - 1)
            /\ \A c \in DOMAIN intergenics :
                  \A x \in 0..(Len(intergenics[c]) - 1) :
                      IntergenicCount(intergenic_read_counts', c, x)
                         - IntergenicCount(intergenic_read_counts, c, x) =
                            IF c = chrom /\ x \in it THEN 1 ELSE 0

\* C2: a counted fragment touches, on each axis, the bins that at least one
\* block of either mate overlaps; it adds 1 to an intergenic bin iff the bin is
\* touched, 1 to the raw sense count of an intron per touched mintron of the
\* fragment's strand that has the intron as sense-primary, and 1 to its raw
\* antisense count per touched mintron of the opposite strand that has it as
\* antisense-primary, however many blocks overlap a bin.
C2_OneUnitPerTouchedBin == [][C2_Step]_vars

\* the first fragment had three blocks per mate, four of them inside mintron
\* m1 and two inside intergenic region 0; the region was counted once and
\* intron B, primary of the touched m1 and m2, twice
C2_Witness ==
    /\ branch = "counted"
    /\ occurrences["q1"] = 2
    /\ occurrences["q2"] = 0
    /\ Len(read.blocks) = 3
    /\ Len(mate.blocks) = 3
    /\ mintrons_touched = {1, 2}
    /\ intergenics_touched = {0}
    /\ Get(intron_read_counts, "B") = 2
    /\ IntergenicCount(intergenic_read_counts, "1", 0) = 1

(***************************************************************************)
(* C3                                                                      *)
(***************************************************************************)
UniquelyMappedProperMate(r) ==
    ~r.is_unmapped /\ r.is_proper_pair /\ r.NH = 1

FragmentFormed(b) == b \in {"skipped", "aborted", "counted"}

C3_Cache ==
    /\ pc = "constructed" => unpaired_reads = EmptyTable
    /\ pc \in {"reading", "aborted"} =>
          DOMAIN unpaired_reads = { n \in Names : occurrences[n] % 2 = 1 }

C3_Step ==
    /\ (nread' = nread + 1 /\ UniquelyMappedProperMate(read')) =>
          LET name == read'.query_name
          IN  /\ FragmentFormed(branch') <=> occurrences'[name] % 2 = 0
              /\ FragmentFormed(branch') =>
                    /\ mate' = unpaired_reads[name]
                    /\ name \notin DOMAIN unpaired_reads'
              /\ ~FragmentFormed(branch') => unpaired_reads'[name] = read'
              /\ \A n \in DOMAIN unpaired_reads' \ {name} :
                    n \in DOMAIN unpaired_reads /\ unpaired_reads'[n] = unpaired_reads[n]
    /\ (pc = "reading" /\ pc' = "normalize") =>
          /\ intron_read_counts' = intron_read_counts
          /\ intron_antisense_read_counts' = intron_antisense_read_counts
          /\ intergenic_read_counts' = intergenic_read_counts

\* C3: while the stream is read the cache holds exactly the query names that
\* occurred an odd number of times among the qualifying records consumed, each
\* with the record of that occurrence; a fragment is formed exactly at an even
\* occurrence, from the cached record, which leaves the cache; the end of the
\* stream counts nothing for the records still cached and goes on to the
\* normalization.
C3_CacheHoldsOddOccurrences == [](C3_Cache) /\ [][C3_Step]_vars

\* the third qualifying record named q1 is in the cache
C3_Witness ==
    /\ pc = "reading"
    /\ occurrences["q1"] = 3
    /\ "q1" \in DOMAIN unpaired_reads
    /\ branch = "cached"

(***************************************************************************)
(* C4                                                                      *)
(***************************************************************************)
Opposite(s) == IF s = "+" THEN "-" ELSE IF s = "-" THEN "+" ELSE None

\* C4: the strand of a counted fragment is '-' when the flag is set and the
\* mate flagged read 1 is reverse-aligned (the mate flagged read 2 is then
\* forward-aligned), '+' when the flag is set and it is not, and the other way
\* round when the flag is clear; the antisense strand is the other symbol; with
\* the flag toggled the two strands and the two touched axes change places.
C4_StrandFromReadOne ==
    branch = "counted" =>
        LET toggled == FragmentStrand(read, ~forward_read_is_sense)
            chrom == read.reference_name
            blocks == read.blocks \o mate.blocks
        IN  /\ strand \in {"+", "-"}
            /\ antisense_strand = Opposite(strand)
            /\ read.is_read1 # mate.is_read1 =>
                  LET one == IF read.is_read1 THEN read ELSE mate
                      two == IF read.is_read1 THEN mate ELSE read
                  IN  /\ one.is_reverse <=> ~two.is_reverse
                      /\ strand = IF forward_read_is_sense
                                  THEN (IF one.is_reverse THEN "-" ELSE "+")
                                  ELSE (IF one.is_reverse THEN "+" ELSE "-")
            /\ toggled = antisense_strand
            /\ Opposite(toggled) = strand
            /\ OverlappedByAny(Extents(mintron_extents_by_chrom, <<chrom, toggled>>),
                               blocks) = antisense_mintrons_touched
            /\ OverlappedByAny(Extents(mintron_extents_by_chrom,
                                       <<chrom, Opposite(toggled)>>),
                               blocks) = mintrons_touched

\* the record completing the pair is read 2 and forward-aligned, its mate is
\* read 1 and reverse-aligned, the flag is set and the strand is '-'
C4_Witness ==
    /\ branch = "counted"
    /\ forward_read_is_sense
    /\ read.is_read2
    /\ ~read.is_reverse
    /\ mate.is_read1
    /\ mate.is_reverse
    /\ strand = "-"
    /\ antisense_mintrons_touched # {}

(***************************************************************************)
(* C5                                                                      *)
(***************************************************************************)
CountTablesUnchanged ==
    /\ intron_read_counts' = intron_read_counts
    /\ intron_antisense_read_counts' = intron_antisense_read_counts
    /\ intergenic_read_counts' = intergenic_read_counts
    /\ intron_normalized_counts' = intron_normalized_counts
    /\ intron_normalized_antisense_counts' = intron_normalized_antisense_counts

\* C5 as claimed: a matched pair whose mates report the same reverse-strand
\* flag aborts the run, whatever chromosome it aligns to.
C5_AbortsWhateverChromosome ==
    (mate # NoRecord /\ read.is_reverse = mate.is_reverse) => pc = "aborted"

C5_Matched ==
    (mate # NoRecord /\ read.is_reverse = mate.is_reverse) =>
        IF read.reference_name \in DOMAIN intergenics
        THEN pc = "aborted" /\ branch = "aborted"
        ELSE pc = "reading" /\ branch = "skipped"

C5_Step ==
    /\ pc # "aborted"
    /\ pc' = "aborted" => CountTablesUnchanged

\* C5 amended: a matched pair whose mates report the same reverse-strand flag
\* aborts the run when the chromosome of the completing record is in the
\* intergenic index, and is skipped like any other pair of that chromosome
\* when it is not; the aborting step changes no count table and no step
\* follows it.
C5_AbortsOnAnnotatedChromosome == [](C5_Matched) /\ [][C5_Step]_vars

\* the run aborted on a pair of chromosome "1" whose mates are both reverse
C5_Witness ==
    /\ pc = "aborted"
    /\ read.reference_name = "1"
    /\ read.is_reverse
    /\ mate.is_reverse

(***************************************************************************)
(* C6                                                                      *)
(***************************************************************************)
Count(list, x) == Cardinality({ k \in 1..Len(list) : list[k] = x })

C6_Messages ==
    \A c \in Chromosomes :
        /\ Count(stdout, c) <= 1
        /\ Count(stdout, c) = 1 => c \notin DOMAIN intergenics

C6_SkipStep ==
    /\ nread' = nread + 1
    /\ UniquelyMappedProperMate(read')
    /\ read'.query_name \in DOMAIN unpaired_reads
    /\ read'.reference_name \notin DOMAIN intergenics

C6_Step ==
    /\ C6_SkipStep =>
          /\ CountTablesUnchanged
          /\ pc' = "reading"
          /\ Count(stdout', read'.reference_name) = 1
          /\ stdout' \in {stdout, Append(stdout, read'.reference_name)}
    /\ stdout' # stdout => C6_SkipStep

\* C6: a matched pair completed by a record of a chromosome absent from the
\* intergenic index changes no count table and leaves the run reading; after
\* it the skip message of the chromosome has been printed exactly once, no
\* other step prints, and no chromosome is ever named twice.
C6_SkippedOnceAndUncounted == [](C6_Messages) /\ [][C6_Step]_vars

\* two pairs were completed on chromosome "U", the second after the message
\* had been printed, and the message is there once
C6_Witness ==
    /\ branch = "skipped"
    /\ occurrences["q1"] = 2
    /\ occurrences["q2"] = 2
    /\ read.reference_name = "U"
    /\ mate.reference_name = "U"
    /\ stdout = <<"U">>
    /\ intron_read_counts = EmptyTable
    /\ intron_antisense_read_counts = EmptyTable

(***************************************************************************)
(* C7                                                                      *)
(***************************************************************************)
C7_Step ==
    (nread' = nread + 1 /\ ~UniquelyMappedProperMate(read')) =>
        /\ unpaired_reads' = unpaired_reads
        /\ CountTablesUnchanged
        /\ stdout' = stdout
        /\ pc' = pc
        /\ ~FragmentFormed(branch')
        /\ mate' = NoRecord

\* C7: a record that is unmapped, not in a proper pair or not uniquely mapped
\* leaves the cache and every count table as they were, forms no fragment and
\* is not cached, also when its query name is in the cache.
C7_DisqualifiedRecordChangesNothing == [][C7_Step]_vars

\* a record with NH = 2 was discarded while a record of its name is cached
C7_Witness ==
    /\ branch = "discarded"
    /\ read.NH = 2
    /\ ~read.is_unmapped
    /\ read.is_proper_pair
    /\ read.query_name \in DOMAIN unpaired_reads

(***************************************************************************)
(* C8, C9, C10                                                             *)
(***************************************************************************)
\* the intron visited by the correction step and the number of mintrons of a
\* membership list that contain it as non-primary and have p as primary
Visited == VisitOrder[cpos]

Hits(membership, primary, p) ==
    Cardinality({ k \in 1..Len(membership[Visited]) :
                     /\ Visited \notin primary[membership[Visited][k]]
                     /\ p \in primary[membership[Visited][k]] })

CorrectionStep == pc = "correct" /\ cpos' = cpos + 1

C8_Step ==
    CorrectionStep =>
        LET c == Get(intron_normalized_counts, Visited)
        IN  c # 0 =>
              \A p \in Introns :
                  Get(intron_normalized_counts', p) =
                      Get(intron_normalized_counts, p)
                         - c * Hits(mintrons, primary_introns, p)

\* C8 as claimed: the visit of an intron with nonzero normalized sense count c
\* lowers the normalized sense count of each primary intron of each mintron
\* that contains it as non-primary by exactly c, once per such mintron.
C8_LowersPrimaryByExactlyC == [][C8_Step]_vars

\* C9 as claimed: after the correction every stored normalized sense count and
\* every stored normalized antisense count is >= 0.
C9_NonNegativeAfterCorrection ==
    pc = "corrected" =>
        \A i \in Introns :
            /\ Get(intron_normalized_counts, i) >= 0
            /\ Get(intron_normalized_antisense_counts, i) >= 0

Max(a, b) == IF a >= b THEN a ELSE b

C10_Step ==
    CorrectionStep =>
        LET a == Get(intron_normalized_antisense_counts, Visited)
        IN  a # 0 =>
              \A p \in Introns :
                  Hits(antisense_mintrons, primary_antisense_introns, p) = 1 =>
                      LET lowered == Get(intron_normalized_antisense_counts, p) - a
                      IN  Get(intron_normalized_antisense_counts', p) \in
                              {lowered, Max(lowered, 0), Min(lowered, 0)}

\* C10 as claimed: the visit of an intron with nonzero normalized antisense
\* count a takes a, clamped or not, from each antisense-primary intron of an
\* antisense mintron that contains it as non-primary.
C10_AntisenseSubtractsAntisenseCount == [][C10_Step]_vars

(***************************************************************************)
(* C11                                                                     *)
(***************************************************************************)
\* the state right after the normalization of the first call
Normalized == pc = "correct" /\ cpos = 1 /\ run = 1

\* C11 as claimed: after normalization an intron has an entry in the
\* normalized antisense table exactly when its raw antisense count is nonzero,
\* whatever its raw sense count, and the entry is
\* raw_antisense / antisense_effective_length * 1000.
C11_AntisenseEntryIffRawAntisense ==
    Normalized =>
        \A i \in Introns :
            /\ i \in DOMAIN intron_normalized_antisense_counts
                  <=> Get(intron_antisense_read_counts, i) # 0
            /\ i \in DOMAIN intron_normalized_antisense_counts =>
                  intron_normalized_antisense_counts[i] =
                      FPK(Get(intron_antisense_read_counts, i),
                          antisense_effective_length[i])

(***************************************************************************)
(* C13                                                                     *)
(***************************************************************************)
\* the rows of the intergenic report of the call in progress
IntergenicRows == output_directory[run][INTERGENIC_OUTPUT_FILENAME]

C13_Rows ==
    pc = "done" =>
        /\ \A c \in DOMAIN intergenics :
              \A x \in 0..(Len(intergenics[c]) - 1) :
                  Cardinality({ k \in 1..Len(IntergenicRows) :
                                   /\ IntergenicRows[k].chromosome = c
                                   /\ IntergenicRows[k].intergenic_region_number = x })
                     = 1
        /\ \A k \in 1..Len(IntergenicRows) :
              LET row == IntergenicRows[k]
              IN  /\ row.chromosome \in DOMAIN intergenics
                  /\ row.intergenic_region_number \in
                        0..(Len(intergenics[row.chromosome]) - 1)
                  /\ row.start =
                        intergenics[row.chromosome][row.intergenic_region_number + 1].start
                  /\ row.end =
                        intergenics[row.chromosome][row.intergenic_region_number + 1].end
                  /\ row.reads_FPK =
                        IntergenicCount(intergenic_read_counts, row.chromosome,
                                        row.intergenic_region_number)
        /\ \A j, k \in 1..Len(IntergenicRows) :
              j < k =>
                 \/ Rank(IntergenicRows[j].chromosome) < Rank(IntergenicRows[k].chromosome)
                 \/ /\ IntergenicRows[j].chromosome = IntergenicRows[k].chromosome
                    /\ IntergenicRows[j].intergenic_region_number
                          < IntergenicRows[k].intergenic_region_number

\* the step counts a fragment with a block overlapping bin x of chromosome c
CountsFragmentOver(c, x) ==
    /\ branch' = "counted"
    /\ nread' = nread + 1
    /\ read'.reference_name = c
    /\ \E b \in { read'.blocks[k] : k \in 1..Len(read'.blocks) }
                   \cup { mate'.blocks[k] : k \in 1..Len(mate'.blocks) } :
          /\ intergenics[c][x + 1].start <= b[2]
          /\ intergenics[c][x + 1].end >= b[1] + 1

C13_Step ==
    \A c \in DOMAIN intergenics :
        \A x \in 0..(Len(intergenics[c]) - 1) :
            IntergenicCount(intergenic_read_counts', c, x) =
                IntergenicCount(intergenic_read_counts, c, x)
                   + (IF CountsFragmentOver(c, x) THEN 1 ELSE 0)

\* C13: a fresh instance starts with every intergenic count at 0 and each step
\* adds 1 to the count of a bin exactly when it counts a fragment with a block
\* overlapping the bin; the intergenic report of the call has exactly one row
\* per intergenic bin of every chromosome of the index, untouched bins
\* included, with the bin's coordinates and its raw count, chromosomes in
\* sorted name order and bins in index order.
C13_OneRowPerBinWithRawCount ==
    /\ intergenic_read_counts = EmptyTable
    /\ [](C13_Rows)
    /\ [][C13_Step]_vars

\* two fragments were counted over bin 0 of chromosome "1" and none over the
\* other bins; the report has three rows, for "1" 0, "1" 1 and "3" 0
C13_Witness ==
    /\ pc = "done"
    /\ Len(IntergenicRows) = 3
    /\ IntergenicRows[1].reads_FPK = 2
    /\ IntergenicRows[2].reads_FPK = 0
    /\ IntergenicRows[2].chromosome = "1"
    /\ IntergenicRows[3].chromosome = "3"
    /\ IntergenicRows[3].reads_FPK = 0

(***************************************************************************)
(* C14                                                                     *)
(***************************************************************************)
\* the files written so far, as (call, file name) pairs
FilesWritten ==
    { f \in (1..Len(output_directory)) \X
            {INTRON_OUTPUT_FILENAME, INTRON_OUTPUT_ANTISENSE_FILENAME,
             INTERGENIC_OUTPUT_FILENAME} :
        f[2] \in DOMAIN output_directory[f[1]] }

C14_Written ==
    /\ FilesWritten # {} =>
          /\ pc \in {"sense_written", "antisense_written", "done"}
          /\ branch = "eof"
          /\ cpos = Len(VisitOrder) + 1
          /\ DOMAIN transcript_intron_counts = DOMAIN transcripts
          /\ DOMAIN transcript_intron_antisense_counts = DOMAIN transcripts
    /\ (pc = "aborted" \/ branch = "aborted") => FilesWritten = {}

C14_Step ==
    /\ FilesWritten \subseteq FilesWritten'
    /\ FilesWritten' # FilesWritten =>
          /\ pc \in {"aggregated", "sense_written", "antisense_written"}
          /\ Cardinality(FilesWritten') = Cardinality(FilesWritten) + 1

\* C14: a file of the output directory exists only after the stream has
\* ended, the correction walk has passed its last intron and both transcript
\* tables hold a rate for every transcript; files are written one per step,
\* by the three steps that follow the aggregation, and none is removed; a run
\* that aborted has written no file.
C14_NoOutputBeforeTheEnd == [](C14_Written) /\ [][C14_Step]_vars

\* the three files are there after a run that counted a fragment
C14_Witness ==
    /\ pc = "done"
    /\ Cardinality(FilesWritten) = 3
    /\ intron_read_counts # EmptyTable

(***************************************************************************)
(* C15                                                                     *)
(***************************************************************************)
C15_Step ==
    (pc \in {"corrected", "aggregated", "sense_written", "antisense_written"}
        /\ pc' # pc) =>
        /\ intron_normalized_counts' = intron_normalized_counts
        /\ intron_normalized_antisense_counts' = intron_normalized_antisense_counts
        /\ intergenic_read_counts' = intergenic_read_counts

\* C15 as claimed: the aggregation and the three report writers leave the
\* normalized sense table, the normalized antisense table and the intergenic
\* raw-count table with exactly the keys and values they had after the
\* correction.
C15_AggregationAndReportsOnlyRead == [][C15_Step]_vars

(***************************************************************************)
(* C12                                                                     *)
(***************************************************************************)
RECURSIVE SumOver(_, _)
\* the sum of f over the set S
SumOver(f, S) ==
    IF S = {} THEN 0
    ELSE LET x == CHOOSE y \in S : TRUE
         IN  f[x] + SumOver(f, S \ {x})

\* the positions of a transcript's introns other than the first and the last
Inner(t) == { k \in 1..Len(transcripts[t]) : 1 < k /\ k < Len(transcripts[t]) }

InnerLength(t) ==
    SumOver([k \in Inner(t) |-> effective_length[transcripts[t][k]]], Inner(t))

InnerWeighted(table, t) ==
    SumOver([k \in Inner(t) |->
                Get(table, transcripts[t][k]) * effective_length[transcripts[t][k]]],
            Inner(t))

RateIsWeightedMean(rates, table, t) ==
    /\ t \in DOMAIN rates
    /\ IF Inner(t) = {} \/ InnerLength(t) = 0
       THEN rates[t] = 0
       ELSE rates[t] * InnerLength(t) = InnerWeighted(table, t)

\* C12: once the aggregation has run, the sense rate and the antisense rate
\* of every transcript are the sum of normalized count times effective length
\* over the introns other than the first and the last, divided by the sum of
\* their effective lengths, and 0 when there is no such intron or their total
\* length is 0; the first and the last intron do not enter the rate.
C12_RateOverNonFlankIntrons ==
    pc \in {"aggregated", "sense_written", "antisense_written", "done"} =>
        \A t \in DOMAIN transcripts :
            /\ RateIsWeightedMean(transcript_intron_counts,
                                  intron_normalized_counts, t)
            /\ RateIsWeightedMean(transcript_intron_antisense_counts,
                                  intron_normalized_antisense_counts, t)
            /\ Len(transcripts[t]) <= 2 =>
                  /\ transcript_intron_counts[t] = 0
                  /\ transcript_intron_antisense_counts[t] = 0

\* T4 = F, J, K, M, L has the rates (500*4 + 0*4 + 250*8) / 16 = 250 and
\* 500*4 / 16 = 125 while both flanks F and L have counts of their own; T5,
\* of the single intron G with a nonzero count, has the rate 0
C12_Witness ==
    /\ pc = "aggregated"
    /\ Get(intron_normalized_counts, "F") # 0
    /\ Get(intron_normalized_counts, "L") # 0
    /\ Get(intron_normalized_counts, "J") = 500
    /\ Get(intron_normalized_counts, "K") = 0
    /\ Get(intron_normalized_counts, "M") = 250
    /\ Get(intron_normalized_antisense_counts, "J") = 500
    /\ transcript_intron_counts["T4"] = 250
    /\ transcript_intron_antisense_counts["T4"] = 125
    /\ Get(intron_normalized_counts, "G") # 0
    /\ transcript_intron_counts["T5"] = 0

(***************************************************************************)
(* C19                                                                     *)
(***************************************************************************)
\* introns of the transcripts that the walk passes before transcript t of
\* chromosome c (positions in transcripts_by_chrom)
IntronsBefore(c, t) ==
    SumOver([x \in { y \in (1..Len(transcripts_by_chrom)) \X (1..Cardinality(DOMAIN transcripts)) :
                       /\ y[2] <= Len(transcripts_by_chrom[y[1]][2])
                       /\ y[1] < c \/ (y[1] = c /\ y[2] < t) } |->
                Len(transcripts[transcripts_by_chrom[x[1]][2][x[2]]])],
            { y \in (1..Len(transcripts_by_chrom)) \X (1..Cardinality(DOMAIN transcripts)) :
                /\ y[2] <= Len(transcripts_by_chrom[y[1]][2])
                /\ y[1] < c \/ (y[1] = c /\ y[2] < t) })

C19_Order ==
    \A c \in 1..Len(transcripts_by_chrom) :
        \A t \in 1..Len(transcripts_by_chrom[c][2]) :
            \A j \in 1..Len(transcripts[transcripts_by_chrom[c][2][t]]) :
                VisitOrder[IntronsBefore(c, t) + j] =
                    transcripts[transcripts_by_chrom[c][2][t]][j]

RECURSIVE Clamped(_, _, _)
\* v after k subtractions of c, each stored as min(. - c, 0)
Clamped(v, c, k) ==
    IF k = 0 THEN v ELSE Clamped(Min(v - c, 0), c, k - 1)

C19_Step ==
    CorrectionStep =>
        LET c == Get(intron_normalized_counts, Visited)
        IN  /\ c = 0 => intron_normalized_counts' = intron_normalized_counts
            /\ c # 0 =>
                  \A p \in Introns :
                      Get(intron_normalized_counts', p) =
                          Clamped(Get(intron_normalized_counts, p), c,
                                  Hits(mintrons, primary_introns, p))

\* C19: the walk visits the introns chromosome by chromosome, transcript by
\* transcript in the order of the index, intron by intron in transcript
\* order; the amount subtracted at the visit of an intron is the count the
\* table holds for it at that moment, corrections by earlier visits included;
\* the visit of an intron whose count is 0 by then changes nothing.
C19_SubtractsCountAtVisit ==
    /\ C19_Order
    /\ [](pc = "correct" => cpos \in 1..(Len(VisitOrder) + 1))
    /\ [][C19_Step]_vars

RECURSIVE Walk(_, _)
\* the sense table after the visits of the introns of a list, in its order
Walk(table, order) ==
    IF order = << >> THEN table
    ELSE Walk(CorrectSense(table, Head(order)), Tail(order))

Reverse(seq) == [k \in 1..Len(seq) |-> seq[Len(seq) + 1 - k]]

\* F and G had the count 250 after normalization and H 125; the visit of F
\* drove G to 0, so the visit of G left H at 125; with the transcripts walked
\* in the opposite order the visit of G takes 250 from H
C19_Witness ==
    /\ pc = "corrected"
    /\ Get(intron_read_counts, "F") = 1
    /\ Get(intron_read_counts, "G") = 1
    /\ Get(intron_read_counts, "H") = 1
    /\ Get(intron_normalized_counts, "G") = 0
    /\ Get(intron_normalized_counts, "H") = 125
    /\ Get(Walk(NormalizeSense(EmptyTable, intron_read_counts),
                Reverse(VisitOrder)), "H") = -125

(***************************************************************************)
(* C20                                                                     *)
(***************************************************************************)
StoredByMin(after, before, amount) ==
    /\ after <= 0
    /\ before - amount > 0 => after = 0
    /\ before - amount <= 0 => after = before - amount

C20_Step ==
    CorrectionStep =>
        LET c == Get(intron_normalized_counts, Visited)
        IN  c # 0 =>
              \A p \in Introns :
                  /\ Hits(mintrons, primary_introns, p) >= 1 =>
                        Get(intron_normalized_counts', p) <= 0
                  /\ Hits(mintrons, primary_introns, p) = 1 =>
                        StoredByMin(Get(intron_normalized_counts', p),
                                    Get(intron_normalized_counts, p), c)
                  /\ Hits(antisense_mintrons, primary_antisense_introns, p) >= 1 =>
                        Get(intron_normalized_antisense_counts', p) <= 0
                  /\ Hits(antisense_mintrons, primary_antisense_introns, p) = 1 =>
                        StoredByMin(Get(intron_normalized_antisense_counts', p),
                                    Get(intron_normalized_antisense_counts, p), c)

\* C20: a correction that touches a primary intron P, subtracting the amount
\* c the visit works with, leaves P with a stored count <= 0: 0 when P's
\* count minus c is positive, the difference otherwise; so does a correction
\* of the antisense table.
C20_CorrectionStoresMin == [][C20_Step]_vars

\* the visit of D took 125 from B's 250: B is stored as 0, not 125; B's own
\* visit had taken 250 from the antisense count 250 of D: stored as 0
C20_Witness ==
    /\ pc = "correct"
    /\ cpos = 5
    /\ intron_read_counts = [B |-> 1, D |-> 1]
    /\ intron_normalized_counts = [B |-> 0, D |-> 125]

(***************************************************************************)
(* C16                                                                     *)
(***************************************************************************)
\* the step is the beginning of a call of execute()
CallBegins == run' = run + 1

C16_Step ==
    CallBegins =>
        /\ intron_read_counts' = EmptyTable
        /\ intron_antisense_read_counts' = EmptyTable
        /\ intergenic_read_counts' = intergenic_read_counts
        /\ \/ /\ intron_normalized_counts' = intron_normalized_counts
              /\ intron_normalized_antisense_counts' =
                    intron_normalized_antisense_counts
           \/ unreachable_counts' =
                 Append(unreachable_counts,
                        [sense |-> intron_normalized_counts,
                         antisense |-> intron_normalized_antisense_counts])

\* the rows of the intergenic report written by call k
IntergenicRowsOf(k) == output_directory[k][INTERGENIC_OUTPUT_FILENAME]

C16_Reports ==
    pc = "done" =>
        /\ Len(IntergenicRowsOf(run)) = Len(IntergenicRowsOf(1))
        /\ \A i \in 1..Len(IntergenicRowsOf(run)) :
              /\ IntergenicRowsOf(run)[i].chromosome = IntergenicRowsOf(1)[i].chromosome
              /\ IntergenicRowsOf(run)[i].intergenic_region_number
                    = IntergenicRowsOf(1)[i].intergenic_region_number
              /\ IntergenicRowsOf(run)[i].reads_FPK
                    = run * IntergenicRowsOf(1)[i].reads_FPK

\* C16: when execute() is called again on the same instance with the same
\* alignment file, the call begins with empty per-intron raw tables while the
\* intergenic table and the entries of the normalized tables are those the
\* earlier call left; the intergenic report of the k-th call shows k times
\* the counts of the first call's report (twice for the second call).
C16_RerunAccumulates == [](C16_Reports) /\ [][C16_Step]_vars

\* the second call on a file with one fragment over intergenic region 0 of
\* chromosome "1" has reported the count 2 where the first call, on the
\* fresh instance, reported 1; entries of the normalized tables of the first
\* call were still there when the second began
C16_Witness ==
    /\ pc = "done"
    /\ run = 2
    /\ IntergenicRowsOf(1)[1].reads_FPK = 1
    /\ IntergenicRowsOf(2)[1].reads_FPK = 2
    /\ IntergenicRowsOf(2) # IntergenicRowsOf(1)
    /\ intergenic_read_counts["1"][0] = 2
    /\ ~NothingNormalized

(***************************************************************************)
(* C17                                                                     *)
(***************************************************************************)
RECURSIVE SplitLines(_, _)
\* the lines of a text that ends with "\n" (cur: the line begun so far)
SplitLines(text, cur) ==
    IF text = << >> THEN (IF cur = << >> THEN << >> ELSE << cur >>)
    ELSE IF Head(text) = Newline
         THEN << cur >> \o SplitLines(Tail(text), << >>)
         ELSE SplitLines(Tail(text), Append(cur, Head(text)))

\* the lines of the output file
OutputLines == SplitLines(output_fasta_file, << >>)

\* positions of the header lines of the input: one per record
RecordStarts ==
    { k \in 1..Len(input_fasta_file) : IsHeader(input_fasta_file[k]) }

\* the k-th smallest element of a set of numbers
Nth(S, k) == CHOOSE x \in S : Cardinality({ y \in S : y <= x }) = k

\* the last line of the record that begins at line h
RecordEnd(h) ==
    IF \E k \in RecordStarts : k > h
    THEN (CHOOSE k \in RecordStarts :
              k > h /\ \A j \in RecordStarts : j > h => k <= j) - 1
    ELSE Len(input_fasta_file)

RECURSIVE Concatenated(_, _)
\* the lines from position a to position b of the input, joined
Concatenated(a, b) ==
    IF a > b THEN << >> ELSE input_fasta_file[a] \o Concatenated(a + 1, b)

\* C17: when create_oneline_seq_fasta returns, the output holds two lines
\* for every record of the input, in the order of the records: '>' and the
\* record's id (the characters between '>' and the first whitespace), then
\* one line with the upper-cased concatenation of the record's sequence
\* lines; the output is thus header line, sequence line, header line, ...;
\* the set returned holds the ids of the records.
C17_TwoLinesPerRecord ==
    fasta_pc = "returned" =>
        /\ Len(OutputLines) = 2 * Cardinality(RecordStarts)
        /\ \A k \in 1..Cardinality(RecordStarts) :
              LET h == Nth(RecordStarts, k)
              IN  /\ OutputLines[2 * k - 1] =
                        << ">" >> \o SequenceId(input_fasta_file[h])
                  /\ OutputLines[2 * k] = Upper(Concatenated(h + 1, RecordEnd(h)))
        /\ \A k \in 1..Len(OutputLines) : IsHeader(OutputLines[k]) <=> k % 2 = 1
        /\ fasta_chromosomes =
              { SequenceId(input_fasta_file[h]) : h \in RecordStarts }

(***************************************************************************)
(* C18                                                                     *)
(***************************************************************************)
IsExonLine(line) == Len(line) >= 3 /\ line[3] = "exon"

\* the exon lines of the file, in file order
ExonLines == SelectSeq(gtf_file, IsExonLine)

\* positions, among the exon lines, where a run of one transcript_id begins
RunStarts ==
    { k \in 1..Len(ExonLines) :
        k = 1 \/ ExonLines[k][9].transcript_id # ExonLines[k - 1][9].transcript_id }

\* the exon lines of the k-th run
Run(k) ==
    LET a == Nth(RunStarts, k)
        b == IF k < Cardinality(RunStarts)
             THEN Nth(RunStarts, k + 1) - 1
             ELSE Len(ExonLines)
    IN  SubSeq(ExonLines, a, b)

Ascending(list) == \A i, j \in 1..Len(list) : i < j => list[i] <= list[j]

\* both lists hold the same values the same number of times
SameValues(list, other) ==
    \A v \in { list[i] : i \in 1..Len(list) } \cup { other[i] : i \in 1..Len(other) } :
        Cardinality({ i \in 1..Len(list) : list[i] = v })
            = Cardinality({ i \in 1..Len(other) : other[i] = v })

\* C18: when convert_gtf_to_annot_file_format ends, a file without exon line
\* has raised CampareeUtilsException; any other file, wherever its header
\* lines and lines of other feature types stand, has raised nothing and, after
\* the '#' header, has one line per run of consecutive exon lines of one
\* transcript_id (the last run included) with exonCount the number of exon
\* lines of the run, exonStarts and exonEnds the run's starts and ends in
\* ascending numeric order, txStart the smallest start and txEnd the largest
\* end.
C18_OneLinePerTranscript ==
    gtf_pc \in {"returned", "failed"} =>
        IF ExonLines = << >>
        THEN gtf_error = "CampareeUtilsException"
        ELSE /\ gtf_error = None
             /\ gtf_pc = "returned"
             /\ output_annot_file[1] = AnnotHeader
             /\ Len(output_annot_file) = 1 + Cardinality(RunStarts)
             /\ \A k \in 1..Cardinality(RunStarts) :
                   LET row == output_annot_file[k + 1]
                       starts == [i \in 1..Len(Run(k)) |-> Run(k)[i][4]]
                       ends == [i \in 1..Len(Run(k)) |-> Run(k)[i][5]]
                   IN  /\ row.transcriptID = Run(k)[1][9].transcript_id
                       /\ row.exonCount = Len(Run(k))
                       /\ Ascending(row.exonStarts)
                       /\ Ascending(row.exonEnds)
                       /\ SameValues(row.exonStarts, starts)
                       /\ SameValues(row.exonEnds, ends)
                       /\ \A i \in 1..Len(starts) : row.txStart <= starts[i]
                       /\ \E i \in 1..Len(starts) : row.txStart = starts[i]
                       /\ \A i \in 1..Len(ends) : row.txEnd >= ends[i]
                       /\ \E i \in 1..Len(ends) : row.txEnd = ends[i]

(***************************************************************************)
(* C21                                                                     *)
(***************************************************************************)
\* two mates on one annotated chromosome, one flagged read 1 and the other
\* read 2, with opposite reverse-strand flags
ProperlyFlaggedPair(r, m) ==
    /\ r.reference_name = m.reference_name
    /\ Annotated(r.reference_name)
    /\ (r.is_read1 /\ m.is_read2) \/ (r.is_read2 /\ m.is_read1)
    /\ r.is_reverse # m.is_reverse

\* what lines 85-165 compute, from the tables of the current state, for the
\* pair whose record `second` is met while record `first` is in the cache
ResolvedInOrder(first, second) ==
    LET chrom == second.reference_name
        s == FragmentStrand(second, forward_read_is_sense)
        a == AntisenseStrand(s)
        blocks == second.blocks \o first.blocks
        mt == TouchedByBlocks(Extents(mintron_extents_by_chrom, <<chrom, s>>), blocks)
        at == TouchedByBlocks(Extents(mintron_extents_by_chrom, <<chrom, a>>), blocks)
        it == TouchedByBlocks(Extents(intergenic_extents_by_chrom, chrom), blocks)
    IN  [strand |-> s,
         antisense_strand |-> a,
         mintrons_touched |-> mt,
         antisense_mintrons_touched |-> at,
         intergenics_touched |-> it,
         intron_read_counts |->
             IF mt = {} THEN intron_read_counts
             ELSE Accumulate(intron_read_counts, mt,
                             mintrons_by_chrom[<<chrom, s>>], primary_introns),
         intron_antisense_read_counts |->
             IF at = {} THEN intron_antisense_read_counts
             ELSE Accumulate(intron_antisense_read_counts, at,
                             mintrons_by_chrom[<<chrom, a>>],
                             primary_antisense_introns),
         intergenic_read_counts |->
             AccumulateIntergenic(intergenic_read_counts, chrom, it)]

C21_Step ==
    (nread' = nread + 1 /\ FragmentFormed(branch')
        /\ ProperlyFlaggedPair(read', mate')) =>
        LET swapped == ResolvedInOrder(read', mate')
        IN  /\ branch' = "counted"
            /\ strand' = swapped.strand
            /\ antisense_strand' = swapped.antisense_strand
            /\ mintrons_touched' = swapped.mintrons_touched
            /\ antisense_mintrons_touched' = swapped.antisense_mintrons_touched
            /\ intergenics_touched' = swapped.intergenics_touched
            /\ intron_read_counts' = swapped.intron_read_counts
            /\ intron_antisense_read_counts' = swapped.intron_antisense_read_counts
            /\ intergenic_read_counts' = swapped.intergenic_read_counts
            /\ ResolvedInOrder(mate', read') = swapped

\* C21: when a pair of mates on one annotated chromosome, one flagged read 1
\* and the other read 2, with opposite reverse-strand flags, is processed,
\* the strand, the antisense strand, the three touched sets and the three raw
\* count tables after the step are those the step would have produced had
\* the two mates come in the opposite order.
C21_MateOrderIsImmaterial == [][C21_Step]_vars

\* read 1 came first and read 2 completed the pair; the mates have different
\* blocks, which together touch mintrons of both strands and an intergenic
\* region
C21_Witness ==
    /\ branch = "counted"
    /\ ProperlyFlaggedPair(read, mate)
    /\ read.is_read2
    /\ mate.is_read1
    /\ read.blocks # mate.blocks
    /\ mintrons_touched # {}
    /\ antisense_mintrons_touched # {}
    /\ intergenics_touched # {}
    /\ TouchedByBlocks(Extents(mintron_extents_by_chrom,
                               <<read.reference_name, strand>>), read.blocks)
          # mintrons_touched

(***************************************************************************)
(* C22                                                                     *)
(***************************************************************************)
\* the step leaves the entry of p (its presence and its value) as it is
SameEntry(after, before, p) ==
    /\ p \in DOMAIN after <=> p \in DOMAIN before
    /\ Get(after, p) = Get(before, p)

\* p is primary, by the given primary sets, for a mintron of the given
\* membership lists that contains the visited intron as non-primary
PrimaryWhereVisitedIsNot(membership, primary, p) ==
    \E k \in 1..Len(membership[Visited]) :
        /\ Visited \notin primary[membership[Visited][k]]
        /\ p \in primary[membership[Visited][k]]

C22_Step ==
    /\ CorrectionStep =>
          LET count == Get(intron_normalized_counts, Visited)
          IN  \A p \in Introns :
                  /\ ~SameEntry(intron_normalized_counts',
                                intron_normalized_counts, p) =>
                        /\ count # 0
                        /\ PrimaryWhereVisitedIsNot(mintrons, primary_introns, p)
                  /\ ~SameEntry(intron_normalized_antisense_counts',
                                intron_normalized_antisense_counts, p) =>
                        /\ count # 0
                        /\ PrimaryWhereVisitedIsNot(antisense_mintrons,
                                                    primary_antisense_introns, p)
    /\ pc = "correct" =>
          /\ DOMAIN intron_normalized_counts' \subseteq Introns
          /\ DOMAIN intron_normalized_antisense_counts' \subseteq Introns
          /\ intron_read_counts' = intron_read_counts
          /\ intron_antisense_read_counts' = intron_antisense_read_counts
          /\ intergenic_read_counts' = intergenic_read_counts
          /\ cpos' = cpos =>
                /\ intron_normalized_counts' = intron_normalized_counts
                /\ intron_normalized_antisense_counts' =
                      intron_normalized_antisense_counts

\* C22: a step of the correction changes the entry of an intron in the
\* normalized sense table only if the intron visited has a nonzero count (the
\* normalized sense count read at the visit) and the intron is sense-primary
\* for a mintron that contains the visited intron as non-primary; it changes
\* an entry of the normalized antisense table only under the same condition
\* on the count, for an antisense-primary intron of an antisense mintron that
\* contains the visited intron as not antisense-primary; every other entry
\* of the two tables, the two raw intron tables and the intergenic table are
\* left as they are.
C22_CorrectionChangesPrimariesOnly == [][C22_Step]_vars

\* the visit of F (count 250) has just lowered G from 500 to 0 in the sense
\* table and from 250 to 0 in the antisense table; F itself, H and the
\* antisense count of J are what the normalization stored
C22_Witness ==
    /\ pc = "correct"
    /\ cpos > 1
    /\ VisitOrder[cpos - 1] = "F"
    /\ Get(intron_normalized_counts, "F") = 250
    /\ Get(intron_read_counts, "G") = 2
    /\ Get(intron_normalized_counts, "G") = 0
    /\ Get(intron_read_counts, "H") = 1
    /\ Get(intron_normalized_counts, "H") = 125
    /\ Get(intron_antisense_read_counts, "G") = 1
    /\ Get(intron_normalized_antisense_counts, "G") = 0
    /\ Get(intron_antisense_read_counts, "J") = 2
    /\ Get(intron_normalized_antisense_counts, "J") = 500

====
